---- MODULE Spec2Model ----
(***************************************************************************)
(* Model of ravevar/football-mas:                                          *)
(*   - the aggregation engine (src/tools/analytics_tools.py), a set of     *)
(*     pure functions over a match collection (a pandas DataFrame);        *)
(*   - the ledger migration (src/Lorenzo/v2/data_prep/                     *)
(*     migrate_to_postgres.py): DDL, transform, load, validate, run on    *)
(*     one PostgreSQL connection next to concurrent readers.               *)
(*                                                                         *)
(*   - the store's connection pool (src/Lorenzo/v2/db/connection.py);      *)
(*   - the query pipeline (src/agents/data_agent.py, analytics_agent.py):  *)
(*     fetch stage, then analytics stage, on a parsed query.               *)
(*                                                                         *)
(*   - the ledger readers (src/Lorenzo/v2/tools/data_tools.py);            *)
(*   - the workflow graph (src/Lorenzo/v1/graph.py) and its four nodes.    *)
(*                                                                         *)
(* The specifications share the variables:                                 *)
(*   Spec         the migration run(s) against one target database;        *)
(*   SpecLedger   the transform and the views on small season files;       *)
(*   SpecAgg      calls of the aggregation functions on a collection;      *)
(*   SpecStore    callers of the connection module, interleaved;           *)
(*   SpecPipe     a parsed query passing through the two agents;           *)
(*   SpecRead     the ledger readers against a migrated or bare database;  *)
(*   SpecFlow     one invocation of the workflow graph;                    *)
(*   SpecFlowFair the same on an empty season file, every enabled node     *)
(*                eventually run.                                          *)
(***************************************************************************)
EXTENDS Integers, Sequences, FiniteSets, TLC

VARIABLES
    matches_df,   \* analytics: the match collection handed to the functions
    result,       \* analytics: outcome of the last aggregation call
    csv,          \* migration: the rows of premier_league_merged.csv
    pc,           \* migration: where main() stands
    data,         \* migration: what load_and_transform returned
    session,      \* migration: the database as the migrating connection sees it
    committed,    \* the database as every other session sees it
    commits,      \* migration: conn.commit() calls of the current run
    validation,   \* migration: what validate() found in the current run
    previous,     \* the committed database when the current run began
    prevOutcome,  \* how the run before the current one ended
    observed,     \* what a concurrent reader's last query in this run returned
    DATABASE_URI, \* store: whether the environment sets DATABASE_URI
    engine,       \* store: the module global _engine (0 is None)
    created,      \* store: create_engine() calls so far; the n-th builds engine n
    returned,     \* store: the engines get_engine has returned so far
    callers,      \* store: per caller, the call in progress and its position
    parsed_query, \* pipeline: the query descriptor the manager agent produced
    stage,        \* pipeline: the node of the workflow to run next
    season_df,    \* pipeline: what load_season_data returns for the season
    state,        \* workflow: the MASState of the invocation in progress
    ran           \* workflow: the nodes the invocation has run, in order

aggVars == <<matches_df, result>>

migVars == <<csv, pc, data, session, committed, commits, validation, previous,
             prevOutcome, observed>>

storeVars == <<DATABASE_URI, engine, created, returned, callers>>

pipeVars == <<parsed_query, stage, season_df>>

flowVars == <<state, ran>>

vars == <<matches_df, result, csv, pc, data, session, committed, commits,
          validation, previous, prevOutcome, observed, storeVars, pipeVars,
          flowVars>>

(***************************************************************************)
(* Bounds                                                                  *)
(***************************************************************************)
\* longest match collection handed to the aggregation functions
MaxMatches == 2
\* most rows of the CSV file the migration reads
MaxCsvRows == 2

(***************************************************************************)
(* Names. Python compares team, referee and season names as strings;       *)
(* NameOrder lists every name of the model in that (lexicographic) order.  *)
(***************************************************************************)
NameOrder ==
    <<"2022_2023", "2023_2024", "A Taylor", "Arsenal", "Brentford", "Everton",
      "M Oliver", "Nott'm Forest">>

NameRank(n) == CHOOSE i \in 1..Len(NameOrder) : NameOrder[i] = n

\* the names in descending string order
RECURSIVE SortedNamesDescending(_)
SortedNamesDescending(S) ==
    IF S = {} THEN <<>>
    ELSE LET m == CHOOSE x \in S : \A y \in S : NameRank(x) >= NameRank(y)
         IN  <<m>> \o SortedNamesDescending(S \ {m})

\* sorted(set_of_names): insertion of the names in string order
RECURSIVE SortedNames(_)
SortedNames(S) ==
    IF S = {} THEN <<>>
    ELSE LET m == CHOOSE x \in S : \A y \in S : NameRank(x) <= NameRank(y)
         IN  <<m>> \o SortedNames(S \ {m})

Range(s) == {s[i] : i \in 1..Len(s)}

RECURSIVE SumSeq(_)
SumSeq(s) == IF s = <<>> THEN 0 ELSE s[1] + SumSeq(Tail(s))

\* the home goals summed whichever column is asked for
ColSumHomeGoals(rows, col) == SumSeq([i \in 1..Len(rows) |-> rows[i].FTHG])

\* df[col].sum() over the rows of a frame
ColSum(rows, col) == SumSeq([i \in 1..Len(rows) |-> rows[i][col]])

\* round(num / den, digits) as an integer count of 10^-digits (scale = 10^digits);
\* Python rounds to nearest, ties to even (no tie occurs below 8 matches).
RoundRatio(num, den, scale) ==
    LET q == (num * scale) \div den
        r == (num * scale) % den
    IN  IF 2 * r > den THEN q + 1
        ELSE IF 2 * r < den THEN q
        ELSE IF q % 2 = 0 THEN q ELSE q + 1

(***************************************************************************)
(* Aggregation engine: src/tools/analytics_tools.py                        *)
(* A row of matches_df carries the columns the functions read:             *)
(* Date, HomeTeam, AwayTeam, FTHG, FTAG, FTR. The shot columns (HS, AS,    *)
(* HST, AST) are summed per venue exactly like the goal columns and are    *)
(* left out.                                                               *)
(***************************************************************************)
AggTeams == {"Arsenal", "Brentford", "Everton"}
GoalValues == 0..1

\* FTR as the data source (football-data.co.uk) records it for a score
ResultOf(hg, ag) == IF hg > ag THEN "H" ELSE IF hg = ag THEN "D" ELSE "A"

NoCall == [op |-> "none"]

Ok(v) == [status |-> "ok", value |-> v]
Raise(e) == [status |-> "raise", exc |-> e]

\* every row counted, whatever its result letter
CountFTRIgnoringLetter(frame, letter) == Len(frame)

\* len(frame[frame['FTR'] == letter])
CountFTR(frame, letter) == Len(SelectSeq(frame, LAMBDA r : r.FTR = letter))

\* an away match is lost when the home side won
AwayLossesWrongLetter(away) == CountFTR(away, "A")

AwayLosses(away) == CountFTR(away, "H")

\* three points for a win, one for a draw
StatPointsTwoForWin(total_wins, total_draws) == (total_wins * 2) + total_draws

StatPoints(total_wins, total_draws) == (total_wins * 3) + total_draws

compute_team_stats(df, team) ==
    LET home == SelectSeq(df, LAMBDA r : r.HomeTeam = team)
        away == SelectSeq(df, LAMBDA r : r.AwayTeam = team)
        home_wins   == CountFTR(home, "H")
        home_draws  == CountFTR(home, "D")
        home_losses == CountFTR(home, "A")
        away_wins   == CountFTR(away, "A")
        away_draws  == CountFTR(away, "D")
        away_losses == AwayLosses(away)
        total_wins    == home_wins + away_wins
        total_draws   == home_draws + away_draws
        total_losses  == home_losses + away_losses
        total_matches == Len(home) + Len(away)
        goals_scored   == ColSum(home, "FTHG") + ColSum(away, "FTAG")
        goals_conceded == ColSum(home, "FTAG") + ColSum(away, "FTHG")
        points == StatPoints(total_wins, total_draws)
        clean_sheets == Len(SelectSeq(home, LAMBDA r : r.FTAG = 0))
                        + Len(SelectSeq(away, LAMBDA r : r.FTHG = 0))
    IN  [ team            |-> team,
          matches_played  |-> total_matches,
          wins            |-> total_wins,
          draws           |-> total_draws,
          losses          |-> total_losses,
          goals_scored    |-> goals_scored,
          goals_conceded  |-> goals_conceded,
          goal_difference |-> goals_scored - goals_conceded,
          points          |-> points,
          win_rate        |-> IF total_matches > 0
                              THEN RoundRatio(total_wins, total_matches, 1000) ELSE 0,
          points_per_game |-> IF total_matches > 0
                              THEN RoundRatio(points, total_matches, 100) ELSE 0,
          goals_per_game  |-> IF total_matches > 0
                              THEN RoundRatio(goals_scored, total_matches, 100) ELSE 0,
          clean_sheets    |-> clean_sheets,
          home_record     |-> [wins |-> home_wins, draws |-> home_draws,
                               losses |-> home_losses],
          away_record     |-> [wins |-> away_wins, draws |-> away_draws,
                               losses |-> away_losses] ]

\* the columns of pd.DataFrame(list of compute_team_stats dicts)
StatColumns ==
    {"team", "matches_played", "wins", "draws", "losses", "goals_scored",
     "goals_conceded", "goal_difference", "points", "win_rate",
     "points_per_game", "goals_per_game", "clean_sheets", "home_record",
     "away_record"}

\* pd.DataFrame(list_of_dicts): the columns are the dicts' keys, so a frame
\* built from an empty list has no columns at all.
DataFrameOf(dicts, columns) ==
    [columns |-> IF dicts = <<>> THEN {} ELSE columns, rows |-> dicts]

\* sorted(set(HomeTeam.tolist() + AwayTeam.tolist()))
TeamsIn(df) ==
    SortedNames({df[i].HomeTeam : i \in 1..Len(df)}
                \cup {df[i].AwayTeam : i \in 1..Len(df)})

\* the value a column is ordered by (team names order as strings)
ColKey(row, c) == IF c = "team" THEN NameRank(row[c]) ELSE row[c]

SortKey(row, by) == [i \in 1..Len(by) |-> ColKey(row, by[i])]

\* a strictly precedes b in descending lexicographic order
LexGreater(a, b) ==
    \E i \in 1..Len(a) : a[i] > b[i] /\ \A j \in 1..(i - 1) : a[j] = b[j]

\* the rows left in the order they came in
SortValuesKeepingOrder(rows, by) == rows

\* rows.sort_values(by, ascending=False ...): descending on the keys in
\* order; rows with equal keys keep their relative order (pandas' lexsort).
RECURSIVE SortValuesDesc(_, _)
SortValuesDesc(rows, by) ==
    IF rows = <<>> THEN <<>>
    ELSE LET n    == Len(rows)
             x    == rows[n]
             done == SortValuesDesc(SubSeq(rows, 1, n - 1), by)
             k    == Cardinality({i \in 1..Len(done) :
                          ~LexGreater(SortKey(x, by), SortKey(done[i], by))})
         IN  SubSeq(done, 1, k) \o <<x>> \o SubSeq(done, k + 1, Len(done))

\* the tie-break on goals scored forgotten
TableSortKeysNoGoalsScored == <<"points", "goal_difference">>

TableSortKeys == <<"points", "goal_difference", "goals_scored">>

\* the new column numbered range(len(df)), from 0
WithIndexColumnFromZero(rows, name) ==
    [i \in 1..Len(rows) |-> [c \in DOMAIN rows[i] \cup {name} |->
                                 IF c = name THEN i - 1 ELSE rows[i][c]]]

\* df.insert(0, name, range(1, len(df) + 1))
WithIndexColumn(rows, name) ==
    [i \in 1..Len(rows) |-> [c \in DOMAIN rows[i] \cup {name} |->
                                 IF c = name THEN i ELSE rows[i][c]]]

compute_league_table(df) ==
    LET teams      == TeamsIn(df)
        table_data == [i \in 1..Len(teams) |-> compute_team_stats(df, teams[i])]
        table_df   == DataFrameOf(table_data, StatColumns)
    IN  IF ~(Range(TableSortKeys) \subseteq table_df.columns)
        THEN Raise("KeyError")       \* sort_values on a missing column
        ELSE Ok(WithIndexColumn(SortValuesDesc(table_df.rows, TableSortKeys),
                                "position"))

\* df.tail(n): the last n rows in place of the first n
Tail_n(rows, n) ==
    SubSeq(rows, (IF n < Len(rows) THEN Len(rows) - n ELSE 0) + 1, Len(rows))

\* df.head(n) for n >= 0
Head_n(rows, n) == SubSeq(rows, 1, IF n < Len(rows) THEN n ELSE Len(rows))

FormLetter(match, team) ==
    IF match.HomeTeam = team
    THEN (IF match.FTR = "H" THEN "W" ELSE IF match.FTR = "D" THEN "D" ELSE "L")
    ELSE (IF match.FTR = "A" THEN "W" ELSE IF match.FTR = "D" THEN "D" ELSE "L")

FormPoints(letter) == IF letter = "W" THEN 3 ELSE IF letter = "D" THEN 1 ELSE 0

\* form_string is the sequence of its letters; score is the pair of the two
\* integers the f-string prints; date is the day strftime prints.
compute_team_form(df, team, last_n) ==
    LET team_matches ==
            Head_n(SelectSeq(df, LAMBDA r : r.HomeTeam = team \/ r.AwayTeam = team),
                   last_n)
        results == [i \in 1..Len(team_matches) |-> FormLetter(team_matches[i], team)]
        recent  == [i \in 1..Len(team_matches) |->
                      LET match   == team_matches[i]
                          is_home == match.HomeTeam = team
                      IN  [ opponent  |-> IF is_home THEN match.AwayTeam
                                          ELSE match.HomeTeam,
                            result    |-> results[i],
                            score     |-> IF is_home THEN <<match.FTHG, match.FTAG>>
                                          ELSE <<match.FTAG, match.FTHG>>,
                            home_away |-> IF is_home THEN "H" ELSE "A",
                            date      |-> match.Date ]]
    IN  IF Len(team_matches) = 0
        THEN [form_string |-> <<>>, form_points |-> 0, recent_results |-> <<>>]
        ELSE [form_string    |-> results,
              form_points    |-> SumSeq([i \in 1..Len(results) |-> FormPoints(results[i])]),
              recent_results |-> recent]

\* columns whose cells are dicts: ordering two of them raises TypeError
DictColumns == {"home_record", "away_record"}

\* an unknown metric silently replaced by "points"
compute_top_performers_default_metric(df, metric, n) ==
    LET teams    == TeamsIn(df)
        rankings == [i \in 1..Len(teams) |-> compute_team_stats(df, teams[i])]
        frame    == DataFrameOf(rankings, StatColumns)
        m        == IF metric \in StatColumns THEN metric ELSE "points"
    IN  IF metric \in DictColumns /\ Len(frame.rows) > 1
        THEN Raise("TypeError")
        ELSE IF metric \in DictColumns \/ frame.rows = <<>>
        THEN Ok(WithIndexColumn(Head_n(frame.rows, n), "rank"))
        ELSE Ok(WithIndexColumn(Head_n(SortValuesDesc(frame.rows, <<m>>), n),
                                "rank"))

compute_top_performers(df, metric, n) ==
    LET teams    == TeamsIn(df)
        rankings == [i \in 1..Len(teams) |-> compute_team_stats(df, teams[i])]
        frame    == DataFrameOf(rankings, StatColumns)
    IN  IF metric \notin frame.columns
        THEN Raise("ValueError")     \* raise ValueError(f"Invalid metric: {metric}")
        ELSE IF metric \in DictColumns /\ Len(frame.rows) > 1
        THEN Raise("TypeError")
        ELSE IF metric \in DictColumns
        THEN Ok(WithIndexColumn(Head_n(frame.rows, n), "rank"))
        ELSE Ok(WithIndexColumn(Head_n(SortValuesDesc(frame.rows, <<metric>>), n),
                                "rank"))

\* teams is a list; the dict keeps one entry per distinct name
compare_teams(df, teams) ==
    [t \in Range(teams) |-> compute_team_stats(df, t)]

\* the loop of compute_head_to_head over rows 1..k; acc is the accumulator
RECURSIVE H2HLoop(_, _, _)
H2HLoop(df, k, team_a) ==
    IF k = 0
    THEN [team_a_wins |-> 0, team_b_wins |-> 0, draws |-> 0,
          team_a_goals |-> 0, team_b_goals |-> 0]
    ELSE LET acc   == H2HLoop(df, k - 1, team_a)
             match == df[k]
         IN  IF match.HomeTeam = team_a
             THEN [ team_a_goals |-> acc.team_a_goals + match.FTHG,
                    team_b_goals |-> acc.team_b_goals + match.FTAG,
                    team_a_wins  |-> acc.team_a_wins + (IF match.FTR = "H" THEN 1 ELSE 0),
                    team_b_wins  |-> acc.team_b_wins + (IF match.FTR = "A" THEN 1 ELSE 0),
                    draws        |-> acc.draws
                                     + (IF match.FTR \notin {"H", "A"} THEN 1 ELSE 0) ]
             ELSE [ team_b_goals |-> acc.team_b_goals + match.FTHG,
                    team_a_goals |-> acc.team_a_goals + match.FTAG,
                    team_b_wins  |-> acc.team_b_wins + (IF match.FTR = "H" THEN 1 ELSE 0),
                    team_a_wins  |-> acc.team_a_wins + (IF match.FTR = "A" THEN 1 ELSE 0),
                    draws        |-> acc.draws
                                     + (IF match.FTR \notin {"H", "A"} THEN 1 ELSE 0) ]

\* the early return for an empty frame giving only the team names
compute_head_to_head_empty_without_counts(df, team_a, team_b) ==
    IF Len(df) = 0
    THEN [team_a |-> team_a, team_b |-> team_b]
    ELSE LET acc == H2HLoop(df, Len(df), team_a)
         IN  [team_a |-> team_a, team_b |-> team_b, total_matches |-> Len(df),
              team_a_wins |-> acc.team_a_wins, team_b_wins |-> acc.team_b_wins,
              draws |-> acc.draws,
              team_a_goals |-> acc.team_a_goals, team_b_goals |-> acc.team_b_goals]

compute_head_to_head(df, team_a, team_b) ==
    IF Len(df) = 0
    THEN [team_a |-> team_a, team_b |-> team_b, total_matches |-> 0,
          team_a_wins |-> 0, team_b_wins |-> 0, draws |-> 0]
    ELSE LET acc == H2HLoop(df, Len(df), team_a)
         IN  [team_a |-> team_a, team_b |-> team_b, total_matches |-> Len(df),
              team_a_wins |-> acc.team_a_wins, team_b_wins |-> acc.team_b_wins,
              draws |-> acc.draws,
              team_a_goals |-> acc.team_a_goals, team_b_goals |-> acc.team_b_goals]

(***************************************************************************)
(* Ledger transform: load_and_transform                                    *)
(* (src/Lorenzo/v2/data_prep/migrate_to_postgres.py).                      *)
(* A CSV row carries season, match_date (a day number), home_team,         *)
(* away_team, match_referee, the full-time goals and the full-time result. *)
(* The kick-off time, the half-time columns and the per-side shot, foul,   *)
(* corner and card columns are copied through unchanged, the per-side ones *)
(* mirrored exactly like the goals, and are left out.                      *)
(***************************************************************************)
\* each season's window taken from the first of its rows alone
SeasonGroupsFirstRow(df) ==
    LET labels == SortedNames({df[i].season : i \in 1..Len(df)})
        First(l) == df[CHOOSE i \in 1..Len(df) :
                          /\ df[i].season = l
                          /\ \A j \in 1..(i - 1) : df[j].season # l]
    IN  [k \in 1..Len(labels) |->
            [ season     |-> labels[k],
              start_date |-> First(labels[k]).match_date,
              end_date   |-> First(labels[k]).match_date ]]

\* df.groupby("season")["match_date"].agg(["min", "max"]): one row per
\* label, in label order
SeasonGroups(df) ==
    LET labels == SortedNames({df[i].season : i \in 1..Len(df)})
        DatesOf(l) == {df[i].match_date : i \in {j \in 1..Len(df) : df[j].season = l}}
    IN  [k \in 1..Len(labels) |->
            [ season     |-> labels[k],
              start_date |-> CHOOSE d \in DatesOf(labels[k]) :
                                 \A e \in DatesOf(labels[k]) : d <= e,
              end_date   |-> CHOOSE d \in DatesOf(labels[k]) :
                                 \A e \in DatesOf(labels[k]) : d >= e ]]

\* rows.sort_values(col): ascending; on this few rows numpy's sort keeps
\* rows with equal keys in their order
RECURSIVE SortValuesAsc(_, _)
SortValuesAsc(rows, col) ==
    IF rows = <<>> THEN <<>>
    ELSE LET n    == Len(rows)
             x    == rows[n]
             done == SortValuesAsc(SubSeq(rows, 1, n - 1), col)
             k    == Cardinality({i \in 1..Len(done) : done[i][col] <= x[col]})
         IN  SubSeq(done, 1, k) \o <<x>> \o SubSeq(done, k + 1, Len(done))

\* the ids enumerated from 0 while the frames' indexes start at 1
IdOfFromZero(names, name) == (CHOOSE i \in 1..Len(names) : names[i] = name) - 1

\* {name: idx for idx, name in enumerate(names, start=1)}[name]
IdOf(names, name) == CHOOSE i \in 1..Len(names) : names[i] = name

\* season_to_id[label]
SeasonIdOf(seasons, label) ==
    CHOOSE i \in 1..Len(seasons) : seasons[i].season = label

\* draws scored as losses
compute_points_draw_zero(scored, conceded) ==
    IF scored > conceded THEN 3 ELSE 0

compute_points(scored, conceded) ==
    IF scored > conceded THEN 3
    ELSE IF scored = conceded THEN 1
    ELSE 0

\* the away row built with the home row's team and opponent
AwayStatRowNotSwapped(match_id, home_id, away_id, home_goals, away_goals) ==
    [ match_id       |-> match_id,
      team_id        |-> home_id,
      opponent_id    |-> away_id,
      is_home        |-> FALSE,
      goals_scored   |-> away_goals,
      goals_conceded |-> home_goals,
      points         |-> compute_points(away_goals, home_goals) ]

HomeStatRow(match_id, home_id, away_id, home_goals, away_goals) ==
    [ match_id       |-> match_id,
      team_id        |-> home_id,
      opponent_id    |-> away_id,
      is_home        |-> TRUE,
      goals_scored   |-> home_goals,
      goals_conceded |-> away_goals,
      points         |-> compute_points(home_goals, away_goals) ]

AwayStatRow(match_id, home_id, away_id, home_goals, away_goals) ==
    [ match_id       |-> match_id,
      team_id        |-> away_id,
      opponent_id    |-> home_id,
      is_home        |-> FALSE,
      goals_scored   |-> away_goals,
      goals_conceded |-> home_goals,
      points         |-> compute_points(away_goals, home_goals) ]

\* no deduction seeded at all
adjustments_left_out == <<>>

\* the known deductions written into the script
adjustments ==
    << [ team_name |-> "Everton", season |-> "2023_2024", adjustment |-> -6,
         reason |-> "PSR breach (2021-22 assessment period)" ],
       [ team_name |-> "Everton", season |-> "2023_2024", adjustment |-> -2,
         reason |-> "PSR breach (2022-23 assessment period), second charge" ],
       [ team_name |-> "Nott'm Forest", season |-> "2023_2024", adjustment |-> -4,
         reason |-> "PSR breach (2022-23 assessment period)" ] >>

NoData == [status |-> "none"]

load_and_transform(df) ==
    LET all_teams    == SortedNames({df[i].home_team : i \in 1..Len(df)}
                                    \cup {df[i].away_team : i \in 1..Len(df)})
        all_referees == SortedNames({df[i].match_referee : i \in 1..Len(df)})
        sorted       == SortValuesAsc(SeasonGroups(df), "start_date")
        season_dates == [k \in 1..Len(sorted) |->
                            [ season_id  |-> k,
                              season     |-> sorted[k].season,
                              league_id  |-> 1,
                              start_date |-> sorted[k].start_date,
                              end_date   |-> sorted[k].end_date ]]
        matches_rows == [i \in 1..Len(df) |->
                            [ match_id      |-> i,
                              season_id     |-> SeasonIdOf(season_dates, df[i].season),
                              match_date    |-> df[i].match_date,
                              home_team_id  |-> IdOf(all_teams, df[i].home_team),
                              away_team_id  |-> IdOf(all_teams, df[i].away_team),
                              referee_id    |-> IdOf(all_referees, df[i].match_referee),
                              ft_home_goals |-> df[i].full_time_home_team_goals,
                              ft_away_goals |-> df[i].full_time_away_team_goals,
                              ft_result     |-> df[i].full_time_result ]]
        \* rows 2k-1 and 2k are the home and the away row of fixture k
        mts_rows == [j \in 1..(2 * Len(df)) |->
                        LET k          == (j + 1) \div 2
                            home_id    == IdOf(all_teams, df[k].home_team)
                            away_id    == IdOf(all_teams, df[k].away_team)
                            home_goals == df[k].full_time_home_team_goals
                            away_goals == df[k].full_time_away_team_goals
                        IN  IF j % 2 = 1
                            THEN HomeStatRow(k, home_id, away_id, home_goals, away_goals)
                            ELSE AwayStatRow(k, home_id, away_id, home_goals, away_goals)]
        adj_rows == [a \in 1..Len(adjustments) |->
                        [ team_id    |-> IdOf(all_teams, adjustments[a].team_name),
                          season_id  |-> SeasonIdOf(season_dates, adjustments[a].season),
                          adjustment |-> adjustments[a].adjustment,
                          reason     |-> adjustments[a].reason ]]
    IN  IF \E a \in 1..Len(adjustments) :
              \/ adjustments[a].team_name \notin Range(all_teams)
              \/ adjustments[a].season \notin {season_dates[k].season :
                                                  k \in 1..Len(season_dates)}
        THEN Raise("KeyError")       \* team_name_to_id[...] / season_to_id[...]
        ELSE Ok([ leagues  |-> << [league_id |-> 1, league_code |-> "E0",
                                   league_name |-> "Premier League"] >>,
                  teams    |-> [i \in 1..Len(all_teams) |->
                                   [team_id |-> i, team_name |-> all_teams[i]]],
                  referees |-> [i \in 1..Len(all_referees) |->
                                   [referee_id |-> i, referee_name |-> all_referees[i]]],
                  seasons  |-> season_dates,
                  matches  |-> matches_rows,
                  match_team_stats   |-> mts_rows,
                  points_adjustments |-> adj_rows ])

(***************************************************************************)
(* The target database. A database state holds the rows of every table in  *)
(* insertion order and the next value of every SERIAL sequence; schema is  *)
(* FALSE while the tables do not exist.                                    *)
(***************************************************************************)
TableNames ==
    {"leagues", "teams", "referees", "seasons", "matches", "match_team_stats",
     "points_adjustments"}

IdColumn ==
    [ leagues |-> "league_id", teams |-> "team_id", referees |-> "referee_id",
      seasons |-> "season_id", matches |-> "match_id",
      match_team_stats |-> "match_team_stat_id",
      points_adjustments |-> "adjustment_id" ]

NoSchema ==
    [schema |-> FALSE, tables |-> [t \in TableNames |-> <<>>],
     seqs |-> [t \in TableNames |-> 1]]

EmptySchema ==
    [schema |-> TRUE, tables |-> [t \in TableNames |-> <<>>],
     seqs |-> [t \in TableNames |-> 1]]

\* a rebuild that lost the DROP of points_adjustments and creates that
\* table only when it is missing: its rows and its sequence survive
RebuildSchemaKeepAdjustments(db) ==
    [EmptySchema EXCEPT
        !.tables["points_adjustments"] = db.tables["points_adjustments"],
        !.seqs["points_adjustments"] = db.seqs["points_adjustments"]]

\* DDL_STATEMENTS: DROP ... IF EXISTS of the view and of every table, then
\* CREATE of every table (each with a fresh sequence), the indexes, the view
RebuildSchema(db) == EmptySchema

\* INSERT with the id column given: the sequence is not consulted
InsertRows(db, t, rows) ==
    [db EXCEPT !.tables[t] = @ \o rows]

\* INSERT without the id column: the ids come from the table's sequence
InsertSerial(db, t, rows) ==
    [db EXCEPT
        !.tables[t] = @ \o [i \in 1..Len(rows) |->
                              [c \in DOMAIN rows[i] \cup {IdColumn[t]} |->
                                  IF c = IdColumn[t] THEN db.seqs[t] + i - 1
                                  ELSE rows[i][c]]],
        !.seqs[t] = @ + Len(rows)]

MaxId(db, t) ==
    IF db.tables[t] = <<>> THEN 0
    ELSE CHOOSE m \in {db.tables[t][i][IdColumn[t]] : i \in 1..Len(db.tables[t])} :
             \A i \in 1..Len(db.tables[t]) : db.tables[t][i][IdColumn[t]] <= m

\* setval(seq, COALESCE(MAX(id), 0) + 1, false) for every table
ResetSequences(db) ==
    [db EXCEPT !.seqs = [t \in TableNames |-> MaxId(db, t) + 1]]

\* load_to_postgres up to, not including, its commit
LoadAll(db, d) ==
    LET d1 == InsertRows(db, "leagues", d.leagues)
        d2 == InsertRows(d1, "teams", d.teams)
        d3 == InsertRows(d2, "referees", d.referees)
        d4 == InsertRows(d3, "seasons", d.seasons)
        d5 == InsertRows(d4, "matches", d.matches)
        d6 == InsertSerial(d5, "match_team_stats", d.match_team_stats)
        d7 == IF d.points_adjustments # <<>>
              THEN InsertSerial(d6, "points_adjustments", d.points_adjustments)
              ELSE d6
    IN  ResetSequences(d7)

(***************************************************************************)
(* The league_table view (DDL_STATEMENTS, lines 143-166)                   *)
(***************************************************************************)
RECURSIVE SumSet(_, _)
\* SUM(col) over a set of joined rows
SumSet(S, col) ==
    IF S = {} THEN 0
    ELSE LET x == CHOOSE y \in S : TRUE IN x[col] + SumSet(S \ {x}, col)

RowsOf(db, t) == {db.tables[t][i] : i \in 1..Len(db.tables[t])}

\* the join on the raw adjustment rows, one joined row per adjustment
AdjustmentRowsUngrouped(db) ==
    {[team_id |-> p.team_id, season_id |-> p.season_id,
      total_adjustment |-> p.adjustment, part |-> p.adjustment_id] :
        p \in RowsOf(db, "points_adjustments")}

\* SELECT team_id, season_id, SUM(adjustment) AS total_adjustment
\* FROM points_adjustments GROUP BY team_id, season_id
AdjustmentSubquery(db) ==
    LET pa == RowsOf(db, "points_adjustments")
    IN  {[team_id |-> g[1], season_id |-> g[2],
          total_adjustment |->
              SumSet({p \in pa : p.team_id = g[1] /\ p.season_id = g[2]},
                     "adjustment"),
          part |-> 0] :
            g \in {<<p.team_id, p.season_id>> : p \in pa}}

\* COALESCE(x, 0), a NULL being the empty sequence
Coalesce0(x) == IF x = <<>> THEN 0 ELSE x[1]

\* FROM match_team_stats mts JOIN matches m JOIN seasons s JOIN teams t
\* LEFT JOIN (...) pa: one joined row per matching pa row, one with a NULL
\* total_adjustment when there is none
LeagueTableJoin(db) ==
    LET pa    == AdjustmentSubquery(db)
        inner == {q \in RowsOf(db, "match_team_stats") \X RowsOf(db, "matches")
                        \X RowsOf(db, "seasons") \X RowsOf(db, "teams") :
                     /\ q[1].match_id = q[2].match_id
                     /\ q[2].season_id = q[3].season_id
                     /\ q[1].team_id = q[4].team_id}
        Joined(q, adj, part) ==
            [ match_team_stat_id |-> q[1].match_team_stat_id,
              season             |-> q[3].season,
              team_name          |-> q[4].team_name,
              goals_scored       |-> q[1].goals_scored,
              goals_conceded     |-> q[1].goals_conceded,
              points             |-> q[1].points,
              total_adjustment   |-> adj,
              part               |-> part ]
        Hits(q) == {p \in pa : p.team_id = q[1].team_id /\ p.season_id = q[2].season_id}
    IN  UNION {IF Hits(q) = {} THEN {Joined(q, <<>>, 0)}
               ELSE {Joined(q, <<p.total_adjustment>>, p.part) : p \in Hits(q)}
               : q \in inner}

\* GROUP BY s.season, t.team_name, pa.total_adjustment with the aggregates
LeagueTableGroups(db) ==
    LET joined == LeagueTableJoin(db)
    IN  {LET G == {j \in joined : /\ j.season = g[1]
                                  /\ j.team_name = g[2]
                                  /\ j.total_adjustment = g[3]}
         IN  [ season    |-> g[1],
               team_name |-> g[2],
               played    |-> Cardinality(G),
               won       |-> Cardinality({j \in G : j.goals_scored > j.goals_conceded}),
               drawn     |-> Cardinality({j \in G : j.goals_scored = j.goals_conceded}),
               lost      |-> Cardinality({j \in G : j.goals_scored < j.goals_conceded}),
               gf        |-> SumSet(G, "goals_scored"),
               ga        |-> SumSet(G, "goals_conceded"),
               gd        |-> SumSet(G, "goals_scored") - SumSet(G, "goals_conceded"),
               points    |-> SumSet(G, "points") + Coalesce0(g[3]),
               points_adjustment |-> Coalesce0(g[3]) ]
         : g \in {<<j.season, j.team_name, j.total_adjustment>> : j \in joined}}

\* ORDER BY s.season, points DESC, gd DESC, gf DESC
ViewPrecedes(a, b) ==
    \/ NameRank(a.season) < NameRank(b.season)
    \/ /\ a.season = b.season
       /\ LexGreater(<<a.points, a.gd, a.gf>>, <<b.points, b.gd, b.gf>>)

\* rows the ORDER BY leaves tied come in an order SQL does not fix
RECURSIVE OrderView(_)
OrderView(S) ==
    IF S = {} THEN <<>>
    ELSE LET r == CHOOSE x \in S : \A y \in S : ~ViewPrecedes(y, x)
         IN  <<r>> \o OrderView(S \ {r})

LeagueTableView(db) == OrderView(LeagueTableGroups(db))

(***************************************************************************)
(* validate (lines 440-570): the checks that decide all_passed. The spot   *)
(* check of one fixture and the printed samples read the database and      *)
(* change nothing.                                                         *)
(***************************************************************************)
ExpectedLeagues == 1
ExpectedTeams == 27
ExpectedSeasons == 5
ExpectedMatches == 1759
ExpectedStatRows == 3518
ExpectedAdjustments == 3
ExpectedTableTeams == 20
ExpectedPlayed == 38
ExpectedEvertonAdjustment == -8

NotValidated ==
    [ran |-> FALSE, counts_ok |-> FALSE, table_ok |-> FALSE, everton_ok |-> FALSE,
     all_passed |-> FALSE]

validate(db) ==
    LET n(t) == Len(db.tables[t])
        counts_ok ==
            /\ n("leagues") = ExpectedLeagues
            /\ n("teams") = ExpectedTeams
            /\ n("referees") > 0
            /\ n("seasons") = ExpectedSeasons
            /\ n("matches") = ExpectedMatches
            /\ n("match_team_stats") = ExpectedStatRows
            /\ n("points_adjustments") = ExpectedAdjustments
        view == LeagueTableView(db)
        t2122 == SelectSeq(view, LAMBDA r : r.season = "2021_2022")
        table_ok ==
            /\ Len(t2122) = ExpectedTableTeams
            /\ \A i \in 1..Len(t2122) : t2122[i].played = ExpectedPlayed
        everton == SelectSeq(view, LAMBDA r : r.season = "2023_2024"
                                              /\ r.team_name = "Everton")
        everton_ok ==
            /\ everton # <<>>
            /\ everton[1].points_adjustment = ExpectedEvertonAdjustment
    IN  [ran |-> TRUE, counts_ok |-> counts_ok, table_ok |-> table_ok,
         everton_ok |-> everton_ok,
         all_passed |-> counts_ok /\ table_ok /\ everton_ok]

(***************************************************************************)
(* The store's connection pool (src/Lorenzo/v2/db/connection.py).          *)
(* get_engine reads the global, builds the engine when it reads None,      *)
(* stores it and returns the global; nothing orders two callers' steps.    *)
(***************************************************************************)
\* callers (threads of the serving process) that use the connection module
NumCallers == 2
\* calls one caller makes
MaxCalls == 2

Callers == 1..NumCallers

StoreFunctions == {"get_engine", "get_connection", "read_sql", "execute_query"}

IdleCaller == [pc |-> "idle", fn |-> "none", new |-> 0, got |-> 0, calls |-> 0]

\* the module just imported: no engine yet, nobody calling
StoreIdle ==
    /\ DATABASE_URI = TRUE
    /\ engine = 0
    /\ created = 0
    /\ returned = {}
    /\ callers = [t \in Callers |-> IdleCaller]

\* Python's None where a team name, a date or a query is expected
None == "None"

\* the query pipeline at rest
NoQuery == [query_type |-> "none"]

PipeIdle ==
    /\ parsed_query = NoQuery
    /\ stage = "idle"
    /\ season_df = <<>>

\* no invocation of the workflow in progress
NoState == [user_query |-> None]

FlowIdle ==
    /\ state = NoState
    /\ ran = <<>>

(***************************************************************************)
(* Spec: main() (lines 577-606) run against one target database, any       *)
(* number of times on the same CSV file, next to a reader session.         *)
(* psycopg2 opens a transaction at the first statement after a commit;     *)
(* other sessions see only what has been committed.                        *)
(***************************************************************************)
MigTeams == {"Everton", "Nott'm Forest"}
SeasonValues == {"2022_2023", "2023_2024"}
RefereeValues == {"A Taylor"}

\* the first match day of a season
SeasonDay(season) == NameRank(season)

CsvFixtures ==
    {[ season |-> s, match_date |-> SeasonDay(s), home_team |-> h, away_team |-> a,
       match_referee |-> r,
       full_time_home_team_goals |-> hg, full_time_away_team_goals |-> ag,
       full_time_result |-> ResultOf(hg, ag) ] :
        s \in SeasonValues, h \in MigTeams, a \in MigTeams, r \in RefereeValues,
        hg \in GoalValues, ag \in GoalValues}

CsvFiles ==
    UNION {[1..n -> {x \in CsvFixtures : x.home_team # x.away_team}] :
              n \in 0..MaxCsvRows}

NotRead == [read |-> FALSE]

InsertSteps ==
    <<"leagues", "teams", "referees", "seasons", "matches", "match_team_stats",
      "points_adjustments">>

\* the state of the migration while the aggregation functions are studied
MigIdle ==
    /\ csv = <<>>
    /\ pc = "idle"
    /\ data = NoData
    /\ session = NoSchema
    /\ committed = NoSchema
    /\ commits = 0
    /\ validation = NotValidated
    /\ previous = NoSchema
    /\ prevOutcome = "none"
    /\ observed = NotRead

Init ==
    /\ csv \in CsvFiles
    /\ pc = "connect"
    /\ data = NoData
    /\ session = NoSchema
    /\ committed = NoSchema
    /\ commits = 0
    /\ validation = NotValidated
    /\ previous = NoSchema
    /\ prevOutcome = "none"
    /\ observed = NotRead
    /\ matches_df = <<>>
    /\ result = NoCall
    /\ StoreIdle
    /\ PipeIdle
    /\ FlowIdle

\* psycopg2.connect(CONNECTION_STRING)
Connect ==
    /\ pc = "connect"
    /\ pc' = "ddl"
    /\ session' = committed
    /\ UNCHANGED <<csv, data, committed, commits, validation, previous,
                   prevOutcome, observed, aggVars, storeVars,
                   pipeVars, flowVars>>

\* cur.execute(DDL_STATEMENTS)
ExecuteDDL ==
    /\ pc = "ddl"
    /\ session' = RebuildSchema(session)
    /\ pc' = "ddl_commit"
    /\ UNCHANGED <<csv, data, committed, commits, validation, previous,
                   prevOutcome, observed, aggVars, storeVars,
                   pipeVars, flowVars>>

\* conn.commit() of main, line 591
CommitDDL ==
    /\ pc = "ddl_commit"
    /\ committed' = session
    /\ commits' = commits + 1
    /\ pc' = "transform"
    /\ UNCHANGED <<csv, data, session, validation, previous, prevOutcome,
                   observed, aggVars, storeVars,
                   pipeVars, flowVars>>

\* data = load_and_transform(CSV_PATH); an exception leaves main
Transform ==
    /\ pc = "transform"
    /\ data' = load_and_transform(csv)
    /\ pc' = IF data'.status = "ok" THEN "insert_1" ELSE "failed"
    /\ UNCHANGED <<csv, session, committed, commits, validation, previous,
                   prevOutcome, observed, aggVars, storeVars,
                   pipeVars, flowVars>>

InsertPc(k) == IF k = 1 THEN "insert_1" ELSE IF k = 2 THEN "insert_2"
               ELSE IF k = 3 THEN "insert_3" ELSE IF k = 4 THEN "insert_4"
               ELSE IF k = 5 THEN "insert_5" ELSE IF k = 6 THEN "insert_6"
               ELSE IF k = 7 THEN "insert_7" ELSE "setval"

\* the k-th execute_values of load_to_postgres
Insert ==
    \E k \in 1..Len(InsertSteps) :
        /\ pc = InsertPc(k)
        /\ LET t == InsertSteps[k]
           IN  session' =
                 IF t \in {"match_team_stats", "points_adjustments"}
                 THEN (IF data.value[t] # <<>>
                       THEN InsertSerial(session, t, data.value[t]) ELSE session)
                 ELSE InsertRows(session, t, data.value[t])
        /\ pc' = InsertPc(k + 1)
        /\ UNCHANGED <<csv, data, committed, commits, validation, previous,
                       prevOutcome, observed, aggVars, storeVars,
                   pipeVars, flowVars>>

\* the setval loop of load_to_postgres
Setval ==
    /\ pc = "setval"
    /\ session' = ResetSequences(session)
    /\ pc' = "load_commit"
    /\ UNCHANGED <<csv, data, committed, commits, validation, previous,
                   prevOutcome, observed, aggVars, storeVars,
                   pipeVars, flowVars>>

\* conn.commit() of load_to_postgres, line 431
CommitLoad ==
    /\ pc = "load_commit"
    /\ committed' = session
    /\ commits' = commits + 1
    /\ pc' = "validate"
    /\ UNCHANGED <<csv, data, session, validation, previous, prevOutcome,
                   observed, aggVars, storeVars,
                   pipeVars, flowVars>>

\* a statement of load_to_postgres fails (the server goes away, a value is
\* refused): the exception leaves main, the open transaction is rolled back
LoadFails ==
    /\ pc \in {InsertPc(k) : k \in 1..(Len(InsertSteps) + 1)} \cup {"load_commit"}
    /\ session' = committed
    /\ pc' = "failed"
    /\ UNCHANGED <<csv, data, committed, commits, validation, previous,
                   prevOutcome, observed, aggVars, storeVars,
                   pipeVars, flowVars>>

\* validate(conn)
Validate ==
    /\ pc = "validate"
    /\ validation' = validate(session)
    /\ pc' = "close"
    /\ UNCHANGED <<csv, data, session, committed, commits, previous,
                   prevOutcome, observed, aggVars, storeVars,
                   pipeVars, flowVars>>

\* conn.close()
Close ==
    /\ pc = "close"
    /\ pc' = "done"
    /\ UNCHANGED <<csv, data, session, committed, commits, validation, previous,
                   prevOutcome, observed, aggVars, storeVars,
                   pipeVars, flowVars>>

\* the script is started again on the same file and the same database
Rerun ==
    /\ pc \in {"done", "failed"}
    /\ pc' = "connect"
    /\ previous' = committed
    /\ prevOutcome' = pc
    /\ data' = NoData
    /\ commits' = 0
    /\ validation' = NotValidated
    /\ observed' = NotRead
    /\ UNCHANGED <<csv, session, committed, aggVars, storeVars,
                   pipeVars, flowVars>>

\* another session queries the ledger and gets the committed state
ReaderQuery ==
    /\ pc \notin {"idle"}
    /\ observed' = [read |-> TRUE, db |-> committed]
    /\ UNCHANGED <<csv, pc, data, session, committed, commits, validation,
                   previous, prevOutcome, aggVars, storeVars,
                   pipeVars, flowVars>>

Next ==
    \/ Connect
    \/ ExecuteDDL
    \/ CommitDDL
    \/ Transform
    \/ Insert
    \/ Setval
    \/ CommitLoad
    \/ LoadFails
    \/ Validate
    \/ Close
    \/ Rerun
    \/ ReaderQuery

Spec == Init /\ [][Next]_vars

(***************************************************************************)
(* SpecLedger: one run of main() on a database without tables, the CSV     *)
(* drawn from a wider pool than Spec's: three clubs, two referees, two     *)
(* match days per season, and rows whose full_time_result is whatever the  *)
(* file says. Nothing in merge_seasons.py or load_and_transform compares   *)
(* that column with the goals.                                             *)
(***************************************************************************)
\* most rows of the CSV file in SpecLedger
MaxLedgerRows == 2

\* home and away club of the pool's fixtures
LedgerPairings == {<<"Everton", "Nott'm Forest">>, <<"Arsenal", "Everton">>}

\* score and recorded result: a home win, a goalless draw, and a home win
\* the file records as a draw
LedgerScores == {<<1, 0, "H">>, <<0, 0, "D">>, <<1, 0, "D">>}

\* the two match days of a season, numbered through the seasons
MatchDay(season, day) == 2 * NameRank(season) - 2 + day

\* the referee of a match day
RefereeOfDay(day) == IF day = 1 THEN "A Taylor" ELSE "M Oliver"

LedgerFixtures ==
    {[ season |-> s, match_date |-> MatchDay(s, d),
       home_team |-> p[1], away_team |-> p[2],
       match_referee |-> RefereeOfDay(d),
       full_time_home_team_goals |-> g[1], full_time_away_team_goals |-> g[2],
       full_time_result |-> g[3] ] :
        s \in SeasonValues, d \in 1..2, p \in LedgerPairings, g \in LedgerScores}

LedgerFiles == UNION {[1..n -> LedgerFixtures] : n \in 0..MaxLedgerRows}

InitLedger ==
    /\ csv \in LedgerFiles
    /\ pc = "connect"
    /\ data = NoData
    /\ session = NoSchema
    /\ committed = NoSchema
    /\ commits = 0
    /\ validation = NotValidated
    /\ previous = NoSchema
    /\ prevOutcome = "none"
    /\ observed = NotRead
    /\ matches_df = <<>>
    /\ result = NoCall
    /\ StoreIdle
    /\ PipeIdle
    /\ FlowIdle

NextLedger ==
    \/ Connect
    \/ ExecuteDDL
    \/ CommitDDL
    \/ Transform
    \/ Insert
    \/ Setval
    \/ CommitLoad
    \/ Validate
    \/ Close

SpecLedger == InitLedger /\ [][NextLedger]_vars

(***************************************************************************)
(* SpecStore: callers of the connection module; each step below is one     *)
(* statement of get_engine, and the callers' steps interleave freely.      *)
(***************************************************************************)
\* a caller enters get_engine, directly or through get_connection (line 47),
\* execute_query (line 76) or read_sql (line 98)
StoreCall(t) ==
    /\ callers[t].pc = "idle"
    /\ callers[t].calls < MaxCalls
    /\ \E fn \in StoreFunctions :
          callers' = [callers EXCEPT ![t] =
                        [pc |-> "check", fn |-> fn, new |-> 0, got |-> 0,
                         calls |-> @.calls + 1]]
    /\ UNCHANGED <<DATABASE_URI, engine, created, returned, aggVars, migVars,
                   pipeVars, flowVars>>

\* if _engine is None: ... if not DATABASE_URI: raise ValueError
GetEngineCheck(t) ==
    /\ callers[t].pc = "check"
    /\ callers' = [callers EXCEPT ![t].pc =
                      IF engine # 0 THEN "return"
                      ELSE IF DATABASE_URI THEN "create" ELSE "raise"]
    /\ UNCHANGED <<DATABASE_URI, engine, created, returned, aggVars, migVars,
                   pipeVars, flowVars>>

\* create_engine(DATABASE_URI, ...): a new engine with its own pool
GetEngineCreate(t) ==
    /\ callers[t].pc = "create"
    /\ created' = created + 1
    /\ callers' = [callers EXCEPT ![t].pc = "assign", ![t].new = created + 1]
    /\ UNCHANGED <<DATABASE_URI, engine, returned, aggVars, migVars, pipeVars, flowVars>>

\* _engine = <the engine just created>
GetEngineAssign(t) ==
    /\ callers[t].pc = "assign"
    /\ engine' = callers[t].new
    /\ callers' = [callers EXCEPT ![t].pc = "return"]
    /\ UNCHANGED <<DATABASE_URI, created, returned, aggVars, migVars, pipeVars, flowVars>>

\* return _engine
GetEngineReturn(t) ==
    /\ callers[t].pc = "return"
    /\ returned' = returned \cup {engine}
    /\ callers' = [callers EXCEPT
                      ![t].got = engine,
                      ![t].pc = IF callers[t].fn = "get_engine" THEN "idle"
                                ELSE "connect"]
    /\ UNCHANGED <<DATABASE_URI, engine, created, aggVars, migVars, pipeVars, flowVars>>

\* get_engine().connect() and the query run on that connection
EngineConnect(t) ==
    /\ callers[t].pc = "connect"
    /\ callers' = [callers EXCEPT ![t].pc = "idle"]
    /\ UNCHANGED <<DATABASE_URI, engine, created, returned, aggVars, migVars,
                   pipeVars, flowVars>>

\* the ValueError leaves get_engine and its caller
StoreRaise(t) ==
    /\ callers[t].pc = "raise"
    /\ callers' = [callers EXCEPT ![t].pc = "idle"]
    /\ UNCHANGED <<DATABASE_URI, engine, created, returned, aggVars, migVars,
                   pipeVars, flowVars>>

InitStore ==
    /\ DATABASE_URI \in BOOLEAN
    /\ engine = 0
    /\ created = 0
    /\ returned = {}
    /\ callers = [t \in Callers |-> IdleCaller]
    /\ matches_df = <<>>
    /\ result = NoCall
    /\ MigIdle
    /\ PipeIdle
    /\ FlowIdle

NextStore ==
    \/ \E t \in Callers : StoreCall(t)
    \/ \E t \in Callers : GetEngineCheck(t)
    \/ \E t \in Callers : GetEngineCreate(t)
    \/ \E t \in Callers : GetEngineAssign(t)
    \/ \E t \in Callers : GetEngineReturn(t)
    \/ \E t \in Callers : EngineConnect(t)
    \/ \E t \in Callers : StoreRaise(t)

SpecStore == InitStore /\ [][NextStore]_vars

(***************************************************************************)
(* SpecAgg: the aggregation functions applied to a match collection.       *)
(* The collection is what the fetch stage hands over: rows between two     *)
(* different teams, newest first (src/agents/data_agent.py:73).            *)
(***************************************************************************)
AggFixtures ==
    {[HomeTeam |-> h, AwayTeam |-> a, FTHG |-> hg, FTAG |-> ag,
      FTR |-> ResultOf(hg, ag)] :
        h \in AggTeams, a \in AggTeams, hg \in GoalValues, ag \in GoalValues}

WithDate(row, d) ==
    [c \in DOMAIN row \cup {"Date"} |-> IF c = "Date" THEN d ELSE row[c]]

MatchCollections ==
    UNION {{[i \in 1..n |-> WithDate(f[i], n - i + 1)] :
               f \in [1..n -> {x \in AggFixtures : x.HomeTeam # x.AwayTeam}]} :
           n \in 0..MaxMatches}

\* a collection holding one fixture won 2-0 by the home team
ScenarioCollections ==
    {<<[Date |-> 1, HomeTeam |-> "Brentford", AwayTeam |-> "Arsenal",
        FTHG |-> 2, FTAG |-> 0, FTR |-> ResultOf(2, 0)]>>}

LastNValues == {1, 5}
MetricValues == {"points", "goals_scored", "home_record", "invalid_metric_xyz"}
TopNValues == {1, 10}

InitAgg ==
    /\ matches_df \in MatchCollections \cup ScenarioCollections
    /\ result = NoCall
    /\ MigIdle
    /\ StoreIdle
    /\ PipeIdle
    /\ FlowIdle

\* the three ratios divided without the total_matches > 0 test
CallTeamStatsUnguarded ==
    /\ result = NoCall
    /\ \E team \in AggTeams :
        /\ result' = [op |-> "compute_team_stats", team |-> team,
                      out |-> IF compute_team_stats(matches_df, team).matches_played = 0
                              THEN Raise("ZeroDivisionError")
                              ELSE Ok(compute_team_stats(matches_df, team))]
        /\ UNCHANGED <<matches_df, migVars, storeVars, pipeVars, flowVars>>

CallTeamStats ==
    /\ result = NoCall
    /\ \E team \in AggTeams :
        /\ result' = [op |-> "compute_team_stats", team |-> team,
                      out |-> Ok(compute_team_stats(matches_df, team))]
        /\ UNCHANGED <<matches_df, migVars, storeVars, pipeVars, flowVars>>

CallTeamForm ==
    /\ result = NoCall
    /\ \E team \in AggTeams, last_n \in LastNValues :
        /\ result' = [op |-> "compute_team_form", team |-> team, last_n |-> last_n,
                      out |-> Ok(compute_team_form(matches_df, team, last_n))]
        /\ UNCHANGED <<matches_df, migVars, storeVars, pipeVars, flowVars>>

CallLeagueTable ==
    /\ result = NoCall
    /\ result' = [op |-> "compute_league_table",
                  out |-> compute_league_table(matches_df)]
    /\ UNCHANGED <<matches_df, migVars, storeVars, pipeVars, flowVars>>

CallTopPerformers ==
    /\ result = NoCall
    /\ \E metric \in MetricValues, n \in TopNValues :
        /\ result' = [op |-> "compute_top_performers", metric |-> metric, n |-> n,
                      out |-> compute_top_performers(matches_df, metric, n)]
        /\ UNCHANGED <<matches_df, migVars, storeVars, pipeVars, flowVars>>

CallCompareTeams ==
    /\ result = NoCall
    /\ \E S \in SUBSET AggTeams :
        /\ result' = [op |-> "compare_teams", teams |-> SortedNames(S),
                      out |-> Ok(compare_teams(matches_df, SortedNames(S)))]
        /\ UNCHANGED <<matches_df, migVars, storeVars, pipeVars, flowVars>>

CallHeadToHead ==
    /\ result = NoCall
    /\ \E team_a \in AggTeams, team_b \in AggTeams :
        /\ team_a # team_b
        /\ result' = [op |-> "compute_head_to_head", team_a |-> team_a,
                      team_b |-> team_b,
                      out |-> Ok(compute_head_to_head(matches_df, team_a, team_b))]
        /\ UNCHANGED <<matches_df, migVars, storeVars, pipeVars, flowVars>>

\* the caller takes the outcome; the next query starts from a clean slate
Return ==
    /\ result # NoCall
    /\ result' = NoCall
    /\ UNCHANGED <<matches_df, migVars, storeVars, pipeVars, flowVars>>

NextAgg ==
    \/ Return
    \/ CallTeamStats
    \/ CallTeamForm
    \/ CallLeagueTable
    \/ CallTopPerformers
    \/ CallCompareTeams
    \/ CallHeadToHead

SpecAgg == InitAgg /\ [][NextAgg]_vars

(***************************************************************************)
(* SpecPipe: one parsed query passing through the workflow's data agent    *)
(* node and analytics agent node (src/Lorenzo/v1/graph.py:184-194).        *)
(* The query descriptor comes from the manager agent, an LLM whose JSON is *)
(* only checked for the keys query_type, teams, season and metrics         *)
(* (src/Lorenzo/v1/agents/manager_agent.py:101-105).                       *)
(* matches_df is raw_data["matches"], result what the last node returned.  *)
(***************************************************************************)
\* most rows of a season file
MaxSeasonRows == 2

NoDate == 0

SeasonFixtures ==
    {f \in {[HomeTeam |-> h, AwayTeam |-> a, FTHG |-> hg, FTAG |-> 0,
             FTR |-> ResultOf(hg, 0)] :
                h \in AggTeams, a \in AggTeams, hg \in GoalValues} :
        f.HomeTeam # f.AwayTeam}

\* a season file lists its fixtures in the order they were played
SeasonFrames ==
    UNION {{[i \in 1..n |-> WithDate(f[i], i)] : f \in [1..n -> SeasonFixtures]} :
           n \in 0..MaxSeasonRows}

SEASON_FILES == {"2024-25"}

DateRanges ==
    {[type |-> "full_season"],
     [type |-> "last_n_games", n_games |-> 1],
     [type |-> "custom", start_date |-> 2, end_date |-> NoDate]}

ParsedQueries ==
    {q \in [query_type : {"single_team", "comparison", "head_to_head",
                          "ranking", "trend"},
            teams : {<<>>, <<"Arsenal">>, <<"Arsenal", "Everton">>},
            opponent : {None, "Everton"},
            season : {"2024-25", "all", "2031-32"},
            date_range : DateRanges,
            metrics : {<<>>, <<"goals_scored">>}] :
        q.metrics = <<>> \/ q.query_type = "ranking"}

\* df[df['HomeTeam'].isin(teams) | df['AwayTeam'].isin(teams)]
filter_by_teams(df, teams) ==
    IF teams = <<>> THEN df
    ELSE SelectSeq(df, LAMBDA r : r.HomeTeam \in Range(teams)
                                    \/ r.AwayTeam \in Range(teams))

filter_by_opponent(df, team, opponent) ==
    SelectSeq(df, LAMBDA r : \/ r.HomeTeam = team /\ r.AwayTeam = opponent
                             \/ r.HomeTeam = opponent /\ r.AwayTeam = team)

filter_by_date_range(df, start_date, end_date) ==
    LET from == IF start_date # NoDate
                THEN SelectSeq(df, LAMBDA r : r.Date >= start_date) ELSE df
    IN  IF end_date # NoDate
        THEN SelectSeq(from, LAMBDA r : r.Date <= end_date) ELSE from

get_last_n_matches(df, team, n) ==
    LET own == IF team # None
               THEN SelectSeq(df, LAMBDA r : r.HomeTeam = team \/ r.AwayTeam = team)
               ELSE df
    IN  Head_n(SortValuesDesc(own, <<"Date">>), n)

\* load_season_data(season) / load_all_seasons() over the one season file
LoadSeason(season, file) ==
    IF season = "all" \/ season \in SEASON_FILES THEN Ok(file)
    ELSE Raise("ValueError")

\* data_agent.execute(state), lines 36-95: any exception leaves as
\* Exception("Data Agent failed: ...")
data_agent_execute(q, file) ==
    LET loaded == LoadSeason(q.season, file)
        team   == IF q.teams # <<>> THEN q.teams[1] ELSE None
        picked == IF q.opponent # None
                  THEN filter_by_opponent(loaded.value, team, q.opponent)
                  ELSE IF q.teams # <<>>
                  THEN filter_by_teams(loaded.value, q.teams)
                  ELSE loaded.value
        dated  == IF q.date_range.type = "last_n_games"
                  THEN get_last_n_matches(picked, team, q.date_range.n_games)
                  ELSE IF q.date_range.type = "custom"
                  THEN filter_by_date_range(picked, q.date_range.start_date,
                                            q.date_range.end_date)
                  ELSE picked
        sorted == SortValuesDesc(dated, <<"Date">>)
    IN  IF loaded.status = "raise" THEN Raise("Exception")
        ELSE Ok([matches  |-> sorted,
                 metadata |->
                   [total_matches |-> Len(sorted),
                    seasons       |-> <<q.season>>,
                    teams         |-> TeamsIn(sorted),
                    date_range    |->
                      [earliest |-> IF Len(sorted) > 0
                                    THEN sorted[Len(sorted)].Date ELSE NoDate,
                       latest   |-> IF Len(sorted) > 0
                                    THEN sorted[1].Date ELSE NoDate]]])

\* the entries of the result dict that are not None, given the outcomes
\* of the aggregation calls made for the query
AnalyticsResult(query_type, calls) ==
    IF \E k \in DOMAIN calls : calls[k].status = "raise"
    THEN Raise("Exception")
    ELSE Ok([k \in DOMAIN calls \cup {"query_type"} |->
                IF k = "query_type" THEN query_type ELSE calls[k].value])

NoCalls == [k \in {} |-> Ok(0)]

\* analytics_agent.execute(state), lines 32-91
analytics_agent_execute(q, df) ==
    LET teams == q.teams
    IN  IF q.query_type = "single_team" /\ teams # <<>>
        THEN AnalyticsResult(q.query_type,
               [team_stats    |-> Ok(compute_team_stats(df, teams[1])),
                form_analysis |-> Ok(compute_team_form(df, teams[1], 5))])
        ELSE IF q.query_type = "comparison" /\ teams # <<>>
        THEN AnalyticsResult(q.query_type,
               [comparison |-> Ok(compare_teams(df, teams))])
        ELSE IF q.query_type = "head_to_head" /\ teams # <<>>
        THEN AnalyticsResult(q.query_type,
               [head_to_head |->
                  Ok(compute_head_to_head(df, teams[1], q.opponent))])
        ELSE IF q.query_type = "ranking"
        THEN IF q.metrics = <<>> \/ "points" \in Range(q.metrics)
                                \/ "table" \in Range(q.metrics)
             THEN AnalyticsResult(q.query_type,
                    [league_table |-> compute_league_table(df)])
             ELSE AnalyticsResult(q.query_type,
                    [top_performers |->
                       compute_top_performers(df, q.metrics[1], 10)])
        ELSE IF q.query_type = "trend" /\ teams # <<>>
        THEN AnalyticsResult(q.query_type,
               [team_stats    |-> Ok(compute_team_stats(df, teams[1])),
                form_analysis |-> Ok(compute_team_form(df, teams[1], 10))])
        ELSE AnalyticsResult(q.query_type, NoCalls)

InitPipe ==
    /\ season_df \in SeasonFrames
    /\ parsed_query \in ParsedQueries
    /\ stage = "data_agent"
    /\ matches_df = <<>>
    /\ result = NoCall
    /\ MigIdle
    /\ StoreIdle
    /\ FlowIdle

\* data_agent_node: raw_data on success, an entry of errors otherwise
DataAgentNode ==
    /\ stage = "data_agent"
    /\ LET out == data_agent_execute(parsed_query, season_df)
       IN  /\ result' = [op |-> "data_agent", out |-> out]
           /\ matches_df' = IF out.status = "ok" THEN out.value.matches ELSE <<>>
    /\ stage' = "analytics_agent"
    /\ UNCHANGED <<parsed_query, season_df, migVars, storeVars, flowVars>>

\* analytics_agent_node when the data agent left raw_data
AnalyticsAgentNode ==
    /\ stage = "analytics_agent"
    /\ result.out.status = "ok"
    /\ result' = [op |-> "analytics_agent",
                  out |-> analytics_agent_execute(parsed_query, matches_df)]
    /\ stage' = "visualizer_agent"
    /\ UNCHANGED <<matches_df, parsed_query, season_df, migVars, storeVars, flowVars>>

\* analytics_agent_node without raw_data: "No raw data available"
AnalyticsAgentSkips ==
    /\ stage = "analytics_agent"
    /\ result.out.status = "raise"
    /\ result' = [op |-> "analytics_agent", out |-> Raise("NoRawData")]
    /\ stage' = "visualizer_agent"
    /\ UNCHANGED <<matches_df, parsed_query, season_df, migVars, storeVars, flowVars>>

NextPipe ==
    \/ DataAgentNode
    \/ AnalyticsAgentNode
    \/ AnalyticsAgentSkips

SpecPipe == InitPipe /\ [][NextPipe]_vars

(***************************************************************************)
(* SpecFlow: one invocation of the compiled workflow                       *)
(* (src/Lorenzo/v1/graph.py), app.invoke({"user_query": q, "errors": []}). *)
(* state is the MASState: a key a node never returned is absent, and       *)
(* state.get(key) is then None. Every value a node stores is truthy: the   *)
(* parsed query has its four required keys, raw_data the keys matches and  *)
(* metadata, analytics_results the key query_type, and visualizations at   *)
(* least the fallback figure.                                              *)
(* stage is the node to run next; the engine runs it, merges what it       *)
(* returned into the state and follows the node's edge.                    *)
(***************************************************************************)
\* the queries the manager agent's LLM may answer with in an invocation
FlowQueries ==
    {q \in ParsedQueries : /\ q.date_range.type = "full_season"
                           /\ q.season # "all"}

\* workflow.add_edge(...) and set_entry_point: the node after each node
NextNodeSkippingAnalytics ==
    [ manager_agent    |-> "data_agent",
      data_agent       |-> "visualizer_agent",
      analytics_agent  |-> "visualizer_agent",
      visualizer_agent |-> "END" ]

NextNode ==
    [ manager_agent    |-> "data_agent",
      data_agent       |-> "analytics_agent",
      analytics_agent  |-> "visualizer_agent",
      visualizer_agent |-> "END" ]

\* the update merged with errors replaced like every other key
MergeReplacingErrors(s, update) ==
    [k \in DOMAIN s \cup DOMAIN update |->
        IF k \in DOMAIN update THEN update[k] ELSE s[k]]

\* a node's return value merged into the state: errors is Annotated with
\* operator.add and grows, every other key is replaced
Merge(s, update) ==
    [k \in DOMAIN s \cup DOMAIN update |->
        IF k \notin DOMAIN update THEN s[k]
        ELSE IF k = "errors" THEN s[k] \o update[k]
        ELSE update[k]]

\* state.get(key) is truthy
Has(s, key) == key \in DOMAIN s

\* {"errors": [f"{agent}: {message}"]}
ErrorUpdate(agent, message) ==
    [errors |-> << [agent |-> agent, message |-> message] >>]

\* manager_agent.execute: the LLM's reply parses into an intent with the
\* required keys, or the call, the parse or the key check raises
ManagerOutcomes == {Ok(q) : q \in FlowQueries} \cup {Raise("Exception")}

\* visualizer_agent.execute (lines 37-107): the figures by the name of the
\* function that draws them. create_head_to_head_table reads team_a_goals
\* and team_b_goals (viz_tools.py lines 283, 290), which the record of an
\* empty head-to-head does not have.
visualizer_execute(analytics) ==
    LET query_type == analytics.query_type
        Set(k) == k \in DOMAIN analytics
        figures ==
            IF query_type = "single_team"
            THEN (IF Set("team_stats")
                  THEN <<"create_team_stats_card", "create_team_stats_bar">>
                  ELSE <<>>)
                 \o (IF Set("form_analysis") THEN <<"create_form_chart">> ELSE <<>>)
            ELSE IF query_type = "comparison"
            THEN (IF Set("comparison") /\ DOMAIN analytics.comparison # {}
                  THEN <<"create_comparison_table", "create_comparison_bar">>
                  ELSE <<>>)
            ELSE IF query_type = "head_to_head"
            THEN (IF Set("head_to_head")
                  THEN <<"create_head_to_head_summary", "create_head_to_head_table">>
                  ELSE <<>>)
            ELSE IF query_type = "ranking"
            THEN (IF Set("league_table") THEN <<"create_league_table">> ELSE <<>>)
                 \o (IF Set("top_performers") /\ analytics.top_performers # <<>>
                     THEN <<"create_top_performers_bar">> ELSE <<>>)
            ELSE IF query_type = "trend"
            THEN (IF Set("team_stats") THEN <<"create_team_stats_card">> ELSE <<>>)
                 \o (IF Set("form_analysis") THEN <<"create_form_chart">> ELSE <<>>)
            ELSE <<>>
    IN  IF /\ query_type = "head_to_head"
           /\ Set("head_to_head")
           /\ "team_a_goals" \notin DOMAIN analytics.head_to_head
        THEN Raise("Exception")      \* KeyError, re-raised at line 107
        ELSE IF figures = <<>> THEN Ok(<<"fallback">>)
        ELSE Ok(figures)

InitFlow ==
    /\ state = [user_query |-> "query", errors |-> <<>>]
    /\ ran = <<>>
    /\ stage = "manager_agent"
    /\ season_df \in SeasonFrames
    /\ parsed_query = NoQuery
    /\ matches_df = <<>>
    /\ result = NoCall
    /\ MigIdle
    /\ StoreIdle

manager_agent_node ==
    /\ stage = "manager_agent"
    /\ \E out \in ManagerOutcomes :
          state' = Merge(state,
                         IF out.status = "ok" THEN [parsed_query |-> out.value]
                         ELSE ErrorUpdate("Manager Agent", "could not parse query"))
    /\ ran' = Append(ran, stage)
    /\ stage' = NextNode[stage]
    /\ UNCHANGED <<parsed_query, season_df, aggVars, migVars, storeVars>>

\* what data_agent_node returns
DataAgentUpdate(s, file) ==
    IF ~Has(s, "parsed_query")
    THEN ErrorUpdate("Data Agent", "No parsed query available")
    ELSE LET out == data_agent_execute(s.parsed_query, file)
         IN  IF out.status = "ok" THEN [raw_data |-> out.value]
             ELSE ErrorUpdate("Data Agent", "failed")

data_agent_node ==
    /\ stage = "data_agent"
    /\ \E update \in {DataAgentUpdate(state, season_df)} :
          state' = Merge(state, update)
    /\ ran' = Append(ran, stage)
    /\ stage' = NextNode[stage]
    /\ UNCHANGED <<parsed_query, season_df, aggVars, migVars, storeVars>>

\* what analytics_agent_node returns
AnalyticsAgentUpdate(s) ==
    IF ~Has(s, "raw_data")
    THEN ErrorUpdate("Analytics Agent", "No raw data available")
    ELSE LET out == analytics_agent_execute(s.parsed_query, s.raw_data.matches)
         IN  IF out.status = "ok" THEN [analytics_results |-> out.value]
             ELSE ErrorUpdate("Analytics Agent", "failed")

analytics_agent_node ==
    /\ stage = "analytics_agent"
    /\ \E update \in {AnalyticsAgentUpdate(state)} :
          state' = Merge(state, update)
    /\ ran' = Append(ran, stage)
    /\ stage' = NextNode[stage]
    /\ UNCHANGED <<parsed_query, season_df, aggVars, migVars, storeVars>>

\* what visualizer_agent_node returns
VisualizerAgentUpdate(s) ==
    IF ~Has(s, "analytics_results")
    THEN ErrorUpdate("Visualizer Agent", "No analytics results available")
    ELSE LET out == visualizer_execute(s.analytics_results)
         IN  IF out.status = "ok" THEN [visualizations |-> out.value]
             ELSE ErrorUpdate("Visualizer Agent", "failed")

visualizer_agent_node ==
    /\ stage = "visualizer_agent"
    /\ \E update \in {VisualizerAgentUpdate(state)} :
          state' = Merge(state, update)
    /\ ran' = Append(ran, stage)
    /\ stage' = NextNode[stage]
    /\ UNCHANGED <<parsed_query, season_df, aggVars, migVars, storeVars>>

NextFlow ==
    \/ manager_agent_node
    \/ data_agent_node
    \/ analytics_agent_node
    \/ visualizer_agent_node

SpecFlow == InitFlow /\ [][NextFlow]_vars

\* The invocations followed to their end read a season file without
\* fixtures. Every outcome of an invocation occurs on it: the manager agent
\* fails; the data agent fails (unknown season); the analytics agent fails
\* (a ranking of no teams); the visualizer agent fails (a head-to-head of no
\* fixtures); all four succeed.
InitFlowFair ==
    /\ InitFlow
    /\ season_df = <<>>

\* app.invoke runs the graph until it reaches END: a node that can run does
SpecFlowFair == InitFlowFair /\ [][NextFlow]_vars /\ WF_vars(NextFlow)

(***************************************************************************)
(* SpecRead: the read operations of the ledger store                       *)
(* (src/Lorenzo/v2/tools/data_tools.py) called on the database a migration *)
(* left behind. committed is that database, result the outcome of the last *)
(* call. Each operation sends one query through read_sql                   *)
(* (src/Lorenzo/v2/db/connection.py:85-99); the query fails when the       *)
(* server cannot be reached or when the tables do not exist.               *)
(* kickoff_time and the half-time columns are left out, as in the ledger.  *)
(***************************************************************************)
VALID_SEASONS ==
    <<"2021_2022", "2022_2023", "2023_2024", "2024_2025", "2025_2026">>

\* the season labels callers ask for; the last one is in no ledger
ReadSeasons == {"2022_2023", "2023_2024", "2031_2032"}

\* pd.read_sql(text(query), conn, params): rows is what the query selects
read_sql(db, up, rows) ==
    IF ~up THEN Raise("OperationalError")          \* no connection
    ELSE IF ~db.schema THEN Raise("ProgrammingError")  \* relation does not exist
    ELSE Ok(rows)

\* ORDER BY m.match_date: rows of one date come in an order SQL does not fix
RECURSIVE OrderByDate(_)
OrderByDate(S) ==
    IF S = {} THEN <<>>
    ELSE LET r == CHOOSE x \in S : \A y \in S : x.date <= y.date
         IN  <<r>> \o OrderByDate(S \ {r})

\* FROM matches m JOIN teams ht JOIN teams at JOIN referees r JOIN seasons s
MatchesJoin(db) ==
    LET inner == {q \in RowsOf(db, "matches") \X RowsOf(db, "teams")
                        \X RowsOf(db, "teams") \X RowsOf(db, "referees")
                        \X RowsOf(db, "seasons") :
                     /\ q[1].home_team_id = q[2].team_id
                     /\ q[1].away_team_id = q[3].team_id
                     /\ q[1].referee_id = q[4].referee_id
                     /\ q[1].season_id = q[5].season_id}
    IN  {[ match_id      |-> q[1].match_id,
           date          |-> q[1].match_date,
           home_team     |-> q[2].team_name,
           away_team     |-> q[3].team_name,
           ft_home_goals |-> q[1].ft_home_goals,
           ft_away_goals |-> q[1].ft_away_goals,
           ft_result     |-> q[1].ft_result,
           referee       |-> q[4].referee_name,
           season        |-> q[5].season ] : q \in inner}

\* FROM match_team_stats mts JOIN teams t JOIN teams opp JOIN matches m
\* JOIN seasons s
TeamStatsJoin(db) ==
    LET inner == {q \in RowsOf(db, "match_team_stats") \X RowsOf(db, "teams")
                        \X RowsOf(db, "teams") \X RowsOf(db, "matches")
                        \X RowsOf(db, "seasons") :
                     /\ q[1].team_id = q[2].team_id
                     /\ q[1].opponent_id = q[3].team_id
                     /\ q[1].match_id = q[4].match_id
                     /\ q[4].season_id = q[5].season_id}
    IN  {[ match_team_stat_id |-> q[1].match_team_stat_id,
           match_id           |-> q[1].match_id,
           team               |-> q[2].team_name,
           opponent           |-> q[3].team_name,
           is_home            |-> q[1].is_home,
           date               |-> q[4].match_date,
           season             |-> q[5].season,
           goals_scored       |-> q[1].goals_scored,
           goals_conceded     |-> q[1].goals_conceded,
           points             |-> q[1].points ] : q \in inner}

\* a failed query is logged and the built-in list returned
get_all_seasons(db, up) ==
    LET df == read_sql(db, up,
                  SortedNames({r.season : r \in RowsOf(db, "seasons")}))
    IN  IF df.status = "raise" THEN Ok(VALID_SEASONS) ELSE df

\* a failed query is logged and the empty list returned
get_all_teams(db, up) ==
    LET df == read_sql(db, up,
                  SortedNames({r.team_name : r \in RowsOf(db, "teams")}))
    IN  IF df.status = "raise" THEN Ok(<<>>) ELSE df

load_season_data(db, up, season) ==
    LET df == read_sql(db, up,
                  OrderByDate({r \in MatchesJoin(db) : r.season = season}))
    IN  IF df.status = "raise" THEN df
        ELSE IF df.value = <<>>
        THEN Raise("ValueError")     \* No data found for season
        ELSE df

load_all_seasons(db, up) ==
    LET df == read_sql(db, up, OrderByDate(MatchesJoin(db)))
    IN  IF df.status = "raise" THEN df
        ELSE IF df.value = <<>>
        THEN Raise("Exception")      \* No data could be loaded
        ELSE df

\* season is Optional: None reads every season
load_team_stats(db, up, season) ==
    IF season # None
    THEN read_sql(db, up, OrderByDate({r \in TeamStatsJoin(db) : r.season = season}))
    ELSE read_sql(db, up, OrderByDate(TeamStatsJoin(db)))

\* SELECT * FROM league_table WHERE season = :season
\* ORDER BY points DESC, gd DESC, gf DESC
load_league_table(db, up, season) ==
    read_sql(db, up, SelectSeq(LeagueTableView(db), LAMBDA r : r.season = season))

\* what main() leaves committed when it ran on a database without tables:
\* the DDL is committed before the transform, the load only if it succeeds
MigratedLedger(file) ==
    LET d == load_and_transform(file)
    IN  IF d.status = "ok" THEN LoadAll(RebuildSchema(NoSchema), d.value)
        ELSE RebuildSchema(NoSchema)

InitRead ==
    /\ csv \in LedgerFiles
    /\ committed \in {NoSchema, MigratedLedger(csv)}
    /\ pc = "idle"
    /\ data = NoData
    /\ session = NoSchema
    /\ commits = 0
    /\ validation = NotValidated
    /\ previous = NoSchema
    /\ prevOutcome = "none"
    /\ observed = NotRead
    /\ matches_df = <<>>
    /\ result = NoCall
    /\ StoreIdle
    /\ PipeIdle
    /\ FlowIdle

ReadGetAllSeasons ==
    /\ result = NoCall
    /\ \E up \in BOOLEAN :
        result' = [op |-> "get_all_seasons", season |-> None, up |-> up,
                   out |-> get_all_seasons(committed, up)]
    /\ UNCHANGED <<matches_df, migVars, storeVars, pipeVars, flowVars>>

ReadGetAllTeams ==
    /\ result = NoCall
    /\ \E up \in BOOLEAN :
        result' = [op |-> "get_all_teams", season |-> None, up |-> up,
                   out |-> get_all_teams(committed, up)]
    /\ UNCHANGED <<matches_df, migVars, storeVars, pipeVars, flowVars>>

ReadLoadSeasonData ==
    /\ result = NoCall
    /\ \E up \in BOOLEAN, season \in ReadSeasons :
        result' = [op |-> "load_season_data", season |-> season, up |-> up,
                   out |-> load_season_data(committed, up, season)]
    /\ UNCHANGED <<matches_df, migVars, storeVars, pipeVars, flowVars>>

ReadLoadAllSeasons ==
    /\ result = NoCall
    /\ \E up \in BOOLEAN :
        result' = [op |-> "load_all_seasons", season |-> None, up |-> up,
                   out |-> load_all_seasons(committed, up)]
    /\ UNCHANGED <<matches_df, migVars, storeVars, pipeVars, flowVars>>

ReadLoadTeamStats ==
    /\ result = NoCall
    /\ \E up \in BOOLEAN, season \in ReadSeasons \cup {None} :
        result' = [op |-> "load_team_stats", season |-> season, up |-> up,
                   out |-> load_team_stats(committed, up, season)]
    /\ UNCHANGED <<matches_df, migVars, storeVars, pipeVars, flowVars>>

ReadLoadLeagueTable ==
    /\ result = NoCall
    /\ \E up \in BOOLEAN, season \in ReadSeasons :
        result' = [op |-> "load_league_table", season |-> season, up |-> up,
                   out |-> load_league_table(committed, up, season)]
    /\ UNCHANGED <<matches_df, migVars, storeVars, pipeVars, flowVars>>

NextRead ==
    \/ Return
    \/ ReadGetAllSeasons
    \/ ReadGetAllTeams
    \/ ReadLoadSeasonData
    \/ ReadLoadAllSeasons
    \/ ReadLoadTeamStats
    \/ ReadLoadLeagueTable

SpecRead == InitRead /\ [][NextRead]_vars

(***************************************************************************)
(* Properties of the migration (checked under Spec)                        *)
(***************************************************************************)
\* the ledger one run of main() on a database without tables leaves behind
FreshRun(file) ==
    LoadAll(RebuildSchema(NoSchema), load_and_transform(file).value)

\* C1: during and after a migration run a concurrent reader sees either the
\* complete previous ledger or the complete new one, and after a failed
\* transform or load the previous ledger is still in place.
C1_ReadersSeeWholeLedger ==
    LET whole == {previous}
                 \cup (IF load_and_transform(csv).status = "ok"
                       THEN {FreshRun(csv)} ELSE {})
    IN  /\ observed.read => observed.db \in whole
        /\ pc = "failed" => committed = previous

\* C2: a migration run commits exactly once, and only after the schema
\* rebuild, the full load and the validation have all completed.
C2_SingleCommitAfterValidation ==
    /\ commits <= 1
    /\ commits >= 1 => validation.ran
    /\ pc = "done" => commits = 1

\* C3: every completed run on the same file leaves the ledger one run on an
\* empty database leaves (same ids, same rows, same row counts); a run that
\* follows a completed run changes nothing, and no Match, TeamMatchStat or
\* PointsAdjustment row is duplicated.
C3_RerunReproducesLedger ==
    pc = "done" =>
        /\ committed = FreshRun(csv)
        /\ prevOutcome = "done" => committed = previous
        /\ Len(committed.tables["matches"]) = Len(csv)
        /\ Len(committed.tables["match_team_stats"]) = 2 * Len(csv)
        /\ Len(committed.tables["points_adjustments"]) = Len(adjustments)
        /\ \A t \in TableNames :
             \A i, j \in 1..Len(committed.tables[t]) :
                 i # j => committed.tables[t][i][IdColumn[t]]
                          # committed.tables[t][j][IdColumn[t]]

C3_Witness ==
    /\ pc = "done"
    /\ prevOutcome = "done"
    /\ previous.schema
    /\ Len(previous.tables["matches"]) = 2
    /\ Len(previous.tables["seasons"]) = 2

\* C4: the two TeamMatchStat rows of every match mirror each other: what
\* one scored the other conceded, and their points add up to 3 when the
\* match had a winner and to 2 when it was drawn.
C4_MirroredRows ==
    data.status = "ok" =>
        \A k \in 1..Len(data.value.matches) :
            LET mts == data.value.match_team_stats
                m   == data.value.matches[k]
                of  == {i \in 1..Len(mts) : mts[i].match_id = m.match_id}
            IN  \A a, b \in of :
                    a # b =>
                        /\ mts[a].goals_scored = mts[b].goals_conceded
                        /\ mts[b].goals_scored = mts[a].goals_conceded
                        /\ mts[a].points + mts[b].points
                             = IF m.ft_home_goals # m.ft_away_goals THEN 3 ELSE 2

C4_Witness ==
    /\ data.status = "ok"
    /\ Len(data.value.match_team_stats) = 4
    /\ \E k \in 1..2 : data.value.matches[k].ft_home_goals
                         = data.value.matches[k].ft_away_goals
    /\ \E k \in 1..2 : data.value.matches[k].ft_home_goals
                         < data.value.matches[k].ft_away_goals

\* C5: the transform emits exactly two TeamMatchStat rows per Match, both
\* with the id of the Match row of the same (k-th) fixture: one is_home row
\* for the home team against the away team, one not is_home row with the
\* two swapped; no (match_id, team_id) pair occurs twice.
C5_TwoRowsPerMatch ==
    data.status = "ok" =>
        LET mts     == data.value.match_team_stats
            matches == data.value.matches
            teams   == data.value.teams
        IN  /\ Len(matches) = Len(csv)
            /\ Len(mts) = 2 * Len(csv)
            /\ \A k \in 1..Len(csv) :
                 LET of == {i \in 1..Len(mts) : mts[i].match_id = k}
                     h  == {i \in of : mts[i].is_home}
                     a  == {i \in of : ~mts[i].is_home}
                 IN  /\ matches[k].match_id = k
                     /\ teams[matches[k].home_team_id].team_name = csv[k].home_team
                     /\ teams[matches[k].away_team_id].team_name = csv[k].away_team
                     /\ Cardinality(of) = 2
                     /\ Cardinality(h) = 1
                     /\ Cardinality(a) = 1
                     /\ \A i \in h : /\ mts[i].team_id = matches[k].home_team_id
                                     /\ mts[i].opponent_id = matches[k].away_team_id
                     /\ \A i \in a : /\ mts[i].team_id = matches[k].away_team_id
                                     /\ mts[i].opponent_id = matches[k].home_team_id
            /\ \A i, j \in 1..Len(mts) :
                 i # j => <<mts[i].match_id, mts[i].team_id>>
                          # <<mts[j].match_id, mts[j].team_id>>

C5_Witness ==
    /\ data.status = "ok"
    /\ Len(csv) = 2
    /\ csv[1].home_team # csv[2].home_team
    /\ data.value.match_team_stats[4].match_id = 2
    /\ data.value.match_team_stats[4].team_id = data.value.matches[2].away_team_id

\* stored points of a team in a season, summed row by row
RawPoints(db, team_name, season) ==
    LET rows == SelectSeq(db.tables["match_team_stats"], LAMBDA r :
                   /\ \E t \in RowsOf(db, "teams") :
                         t.team_id = r.team_id /\ t.team_name = team_name
                   /\ \E m \in RowsOf(db, "matches"), s \in RowsOf(db, "seasons") :
                         /\ m.match_id = r.match_id
                         /\ s.season_id = m.season_id
                         /\ s.season = season)
    IN  SumSeq([i \in 1..Len(rows) |-> rows[i].points])

\* the adjustment rows of a team in a season, each counted once
AdjustmentTotal(db, team_name, season) ==
    LET rows == SelectSeq(db.tables["points_adjustments"], LAMBDA r :
                   /\ \E t \in RowsOf(db, "teams") :
                         t.team_id = r.team_id /\ t.team_name = team_name
                   /\ \E s \in RowsOf(db, "seasons") :
                         s.season_id = r.season_id /\ s.season = season)
    IN  SumSeq([i \in 1..Len(rows) |-> rows[i].adjustment])

\* C9: in the league_table view over the committed ledger a team's points
\* for a season are the raw sum of its TeamMatchStat points plus the sum of
\* its PointsAdjustment rows for that season, each row counted once however
\* many matches it played (0 without such rows; -8 for Everton's -6 and -2),
\* and validate's Everton check sees exactly that.
C9_AdjustmentsAppliedOnce ==
    LET v == LeagueTableView(committed)
    IN  /\ \A i \in 1..Len(v) :
             /\ v[i].points_adjustment
                  = AdjustmentTotal(committed, v[i].team_name, v[i].season)
             /\ v[i].points
                  = RawPoints(committed, v[i].team_name, v[i].season)
                    + AdjustmentTotal(committed, v[i].team_name, v[i].season)
             /\ (v[i].team_name = "Everton" /\ v[i].season = "2023_2024")
                  => v[i].points_adjustment = -8
        /\ \A i, j \in 1..Len(v) :
             (v[i].team_name = v[j].team_name /\ v[i].season = v[j].season) => i = j
        /\ validation.ran =>
             validation.everton_ok
               = (\E i \in 1..Len(v) : /\ v[i].team_name = "Everton"
                                       /\ v[i].season = "2023_2024")

C9_Witness ==
    LET v == LeagueTableView(committed)
    IN  /\ pc = "done"
        /\ validation.everton_ok
        /\ \E i \in 1..Len(v) : /\ v[i].team_name = "Everton"
                                /\ v[i].season = "2023_2024"
                                /\ v[i].played = 2
                                /\ v[i].points_adjustment = -8
                                /\ v[i].points = -4

(***************************************************************************)
(* Properties of the aggregation engine (checked under SpecAgg)            *)
(***************************************************************************)
Decisive(df) == Len(SelectSeq(df, LAMBDA r : r.FTR \in {"H", "A"}))
Draws(df)    == Len(SelectSeq(df, LAMBDA r : r.FTR = "D"))

\* the outcome of the last call was a value, not an exception
Returned == result # NoCall /\ result.out.status = "ok"

\* C6: summing points over compute_team_stats of all distinct teams of a
\* collection (here: the entries compare_teams returns for a team list that
\* covers them) gives 3 x decisive matches + 2 x draws.
C6_PointsConservation ==
    (result.op = "compare_teams"
        /\ Range(TeamsIn(matches_df)) \subseteq Range(result.teams))
    => SumSeq([i \in 1..Len(result.teams) |->
                   result.out.value[result.teams[i]].points])
         = 3 * Decisive(matches_df) + 2 * Draws(matches_df)

C6_Witness ==
    /\ result.op = "compare_teams"
    /\ Range(TeamsIn(matches_df)) \subseteq Range(result.teams)
    /\ Decisive(matches_df) >= 1
    /\ Draws(matches_df) >= 1
    /\ Cardinality(Range(TeamsIn(matches_df))) = 3

\* C7: for every team and every non-empty collection, compute_team_stats
\* returns wins + draws + losses = matches_played and
\* goal_difference = goals_scored - goals_conceded.
C7_StatsInvariant ==
    (result.op = "compute_team_stats" /\ Len(matches_df) > 0)
    => LET st == result.out.value
       IN  /\ st.wins + st.draws + st.losses = st.matches_played
           /\ st.goal_difference = st.goals_scored - st.goals_conceded

C7_Witness ==
    /\ result.op = "compute_team_stats"
    /\ Len(matches_df) > 0
    /\ result.out.value.matches_played = 2
    /\ result.out.value.losses = 1
    /\ result.out.value.away_record.losses = 1
    /\ result.out.value.wins = 1

\* C8: every adjacent pair of rows of compute_league_table's output is in
\* descending order of (points, goal difference, goals scored).
C8_TableSorted ==
    (result.op = "compute_league_table" /\ Returned)
    => LET t == result.out.value
       IN  \A i \in 1..(Len(t) - 1) :
             \/ t[i].points > t[i + 1].points
             \/ /\ t[i].points = t[i + 1].points
                /\ t[i].goal_difference > t[i + 1].goal_difference
             \/ /\ t[i].points = t[i + 1].points
                /\ t[i].goal_difference = t[i + 1].goal_difference
                /\ t[i].goals_scored >= t[i + 1].goals_scored

\* a table in which the third key decides and reorders the alphabetical list
C8_Witness ==
    /\ result.op = "compute_league_table"
    /\ Returned
    /\ Len(result.out.value) = 3
    /\ \E i \in 1..2 :
          LET t == result.out.value
          IN  /\ t[i].points = t[i + 1].points
              /\ t[i].goal_difference = t[i + 1].goal_difference
              /\ t[i].goals_scored > t[i + 1].goals_scored
              /\ NameRank(t[i].team) > NameRank(t[i + 1].team)

\* C10: on an empty match collection none of the six aggregation functions
\* raises (compute_top_performers asked for a valid metric, "points").
C10_NoRaiseOnEmpty ==
    (/\ Len(matches_df) = 0
     /\ result # NoCall
     /\ (result.op = "compute_top_performers" => result.metric = "points"))
    => result.out.status = "ok"

\* C11: compute_top_performers asked for a metric that is not a field of
\* compute_team_stats fails with the invalid-metric error (ValueError
\* "Invalid metric: ..."): it returns no ranking and ranks by no other metric.
C11_InvalidMetricRaises ==
    (result.op = "compute_top_performers" /\ result.metric \notin StatColumns)
    => result.out = Raise("ValueError")

C11_Witness ==
    /\ result.op = "compute_top_performers"
    /\ result.metric = "invalid_metric_xyz"
    /\ Len(matches_df) = MaxMatches
    /\ result.out = Raise("ValueError")

\* C12: compute_head_to_head on an empty match collection returns, for any
\* two teams, a record with total_matches = 0 and team_a_wins = team_b_wins =
\* draws = 0, and raises nothing.
C12_HeadToHeadEmpty ==
    (result.op = "compute_head_to_head" /\ Len(matches_df) = 0)
    => /\ result.out.status = "ok"
       /\ LET v == result.out.value
          IN  /\ {"total_matches", "team_a_wins", "team_b_wins", "draws"}
                    \subseteq DOMAIN v
              /\ v.total_matches = 0
              /\ v.team_a_wins = 0
              /\ v.team_b_wins = 0
              /\ v.draws = 0
              /\ v.team_a = result.team_a
              /\ v.team_b = result.team_b

C12_Witness ==
    /\ result.op = "compute_head_to_head"
    /\ Len(matches_df) = 0
    /\ result.team_a = "Everton"
    /\ result.team_b = "Arsenal"
    /\ result.out.status = "ok"
    /\ result.out.value.total_matches = 0

(***************************************************************************)
(* Properties of the store (checked under SpecStore)                       *)
(***************************************************************************)
\* C13: however many callers use the connection module, and however their
\* calls interleave, at most one engine is ever constructed and every call
\* of get_engine returns that one engine.
C13_SingleEngine ==
    /\ created <= 1
    /\ Cardinality(returned) <= 1

(***************************************************************************)
(* Properties of the query pipeline (checked under SpecPipe)               *)
(***************************************************************************)
\* C14: whenever the analytics agent has called compute_head_to_head for a
\* head_to_head query, every row of the match collection the data agent
\* fetched is a fixture between team_a (teams[0]) and team_b (opponent).
C14_FetchOnlyBetweenTheTwo ==
    (/\ result.op = "analytics_agent"
     /\ result.out.status = "ok"
     /\ "head_to_head" \in DOMAIN result.out.value)
    => \A i \in 1..Len(matches_df) :
          {matches_df[i].HomeTeam, matches_df[i].AwayTeam}
            = {parsed_query.teams[1], parsed_query.opponent}

(***************************************************************************)
(* Properties of the ledger as a whole (checked under SpecLedger)          *)
(***************************************************************************)
\* the fixtures of one season as the aggregation functions take them: the
\* columns merge_seasons.py renamed, under their football-data names
SeasonFrame(file, label) ==
    LET rows == SelectSeq(file, LAMBDA r : r.season = label)
    IN  [i \in 1..Len(rows) |->
            [ HomeTeam |-> rows[i].home_team,
              AwayTeam |-> rows[i].away_team,
              FTHG     |-> rows[i].full_time_home_team_goals,
              FTAG     |-> rows[i].full_time_away_team_goals,
              FTR      |-> rows[i].full_time_result,
              Date     |-> rows[i].match_date ]]

SeasonLabels(file) == {file[i].season : i \in 1..Len(file)}

NoAdjustments(label) ==
    \A a \in 1..Len(adjustments) : adjustments[a].season # label

\* every fixture of the season records the result its goals give
ResultsMatchGoals(file, label) ==
    \A i \in 1..Len(file) :
        file[i].season = label
        => file[i].full_time_result
             = ResultOf(file[i].full_time_home_team_goals,
                        file[i].full_time_away_team_goals)

ThreeKeySorted(rows, points, gd, gf) ==
    \A i \in 1..(Len(rows) - 1) :
        ~LexGreater(<<rows[i + 1][points], rows[i + 1][gd], rows[i + 1][gf]>>,
                    <<rows[i][points], rows[i][gd], rows[i][gf]>>)

\* compute_league_table over the season's fixtures and the league_table
\* view of the ledger list the same teams with the same eight figures, each
\* in descending order of (points, goal difference, goals for)
TableAgreesWithView(db, file, label) ==
    LET table == compute_league_table(SeasonFrame(file, label))
        view  == SelectSeq(LeagueTableView(db), LAMBDA r : r.season = label)
    IN  /\ table.status = "ok"
        /\ Len(table.value) = Len(view)
        /\ \A i \in 1..Len(table.value) :
              \E j \in 1..Len(view) :
                 LET t == table.value[i]
                     v == view[j]
                 IN  /\ v.team_name = t.team
                     /\ v.played = t.matches_played
                     /\ v.won = t.wins
                     /\ v.drawn = t.draws
                     /\ v.lost = t.losses
                     /\ v.gf = t.goals_scored
                     /\ v.ga = t.goals_conceded
                     /\ v.gd = t.goal_difference
                     /\ v.points = t.points
        /\ ThreeKeySorted(table.value, "points", "goal_difference", "goals_scored")
        /\ ThreeKeySorted(view, "points", "gd", "gf")

Column(rows, col) == {rows[i][col] : i \in 1..Len(rows)}

\* C16: in every entity set the transform returns, each season_id,
\* home_team_id, away_team_id and referee_id of a Match row, each match_id,
\* team_id and opponent_id of a TeamMatchStat row and each team_id and
\* season_id of a PointsAdjustment row is the id of a row of the table it
\* refers to; the Match rows' ids resolve to the names in the fixture.
C16_ReferentialIntegrity ==
    data.status = "ok"
    => LET d == data.value
       IN  /\ \A i \in 1..Len(d.seasons) :
                 d.seasons[i].league_id \in Column(d.leagues, "league_id")
           /\ \A i \in 1..Len(d.matches) :
                 LET m == d.matches[i]
                 IN  /\ m.season_id \in Column(d.seasons, "season_id")
                     /\ m.home_team_id \in Column(d.teams, "team_id")
                     /\ m.away_team_id \in Column(d.teams, "team_id")
                     /\ m.referee_id \in Column(d.referees, "referee_id")
                     /\ \E t \in Range(d.teams) :
                           t.team_id = m.home_team_id
                             /\ t.team_name = csv[i].home_team
                     /\ \E t \in Range(d.teams) :
                           t.team_id = m.away_team_id
                             /\ t.team_name = csv[i].away_team
                     /\ \E r \in Range(d.referees) :
                           r.referee_id = m.referee_id
                             /\ r.referee_name = csv[i].match_referee
                     /\ \E x \in Range(d.seasons) :
                           x.season_id = m.season_id /\ x.season = csv[i].season
           /\ \A i \in 1..Len(d.match_team_stats) :
                 LET r == d.match_team_stats[i]
                 IN  /\ r.match_id \in Column(d.matches, "match_id")
                     /\ r.team_id \in Column(d.teams, "team_id")
                     /\ r.opponent_id \in Column(d.teams, "team_id")
           /\ \A i \in 1..Len(d.points_adjustments) :
                 LET a == d.points_adjustments[i]
                 IN  /\ a.team_id \in Column(d.teams, "team_id")
                     /\ a.season_id \in Column(d.seasons, "season_id")

C16_Witness ==
    /\ data.status = "ok"
    /\ Len(data.value.teams) = 3
    /\ Len(data.value.referees) = 2
    /\ Len(data.value.seasons) = 2
    /\ Len(data.value.matches) = MaxLedgerRows
    /\ Len(data.value.points_adjustments) = 3

\* the (team name, season label) keys of the adjustment list
SeededKeys == {<<"Everton", "2023_2024">>, <<"Nott'm Forest", "2023_2024">>}

\* a key of the list names a team or a season the file does not hold
Unresolved(file) ==
    \E k \in SeededKeys :
        \/ k[1] \notin Column(file, "home_team") \cup Column(file, "away_team")
        \/ k[2] \notin Column(file, "season")

\* C17: when an adjustment's team name or season label does not resolve to
\* a team or season of the input, the transform fails with the lookup error
\* (KeyError), the run ends there, no entity set exists and no table of the
\* database has received a row.
C17_UnresolvedAdjustmentIsFatal ==
    (pc \notin {"connect", "ddl", "ddl_commit", "transform"} /\ Unresolved(csv))
    => /\ pc = "failed"
       /\ data = Raise("KeyError")
       /\ \A t \in TableNames : session.tables[t] = <<>>
       /\ \A t \in TableNames : committed.tables[t] = <<>>

C17_Witness ==
    /\ pc = "failed"
    /\ Len(csv) = MaxLedgerRows
    /\ "Everton" \in Column(csv, "home_team") \cup Column(csv, "away_team")
    /\ "2023_2024" \in Column(csv, "season")
    /\ "Nott'm Forest" \notin Column(csv, "home_team") \cup Column(csv, "away_team")
    /\ data = Raise("KeyError")

\* C18: every Match row of the ledger records the result its goals give:
\* H exactly when the home side scored more, D when the goals are equal,
\* A when the away side scored more.
C18_ResultAgreesWithGoals ==
    \A m \in RowsOf(committed, "matches") :
        m.ft_result = ResultOf(m.ft_home_goals, m.ft_away_goals)

Reverse(seq) == [i \in 1..Len(seq) |-> seq[Len(seq) + 1 - i]]

\* ids are 1..N in the order of the rows, and a larger id has a later name
EnumeratedInNameOrder(rows, id, name) ==
    /\ \A i \in 1..Len(rows) : rows[i][id] = i
    /\ \A i \in 1..(Len(rows) - 1) :
          NameRank(rows[i][name]) < NameRank(rows[i + 1][name])

\* C19: the transform numbers the distinct team names, and the distinct
\* referee names, 1..N in sorted name order, one id per name, every name of
\* the file included; the same rows in reverse order get the same ids.
C19_IdsFromSortedNames ==
    data.status = "ok"
    => LET d == data.value
           r == load_and_transform(Reverse(csv))
       IN  /\ EnumeratedInNameOrder(d.teams, "team_id", "team_name")
           /\ Column(d.teams, "team_name")
                = Column(csv, "home_team") \cup Column(csv, "away_team")
           /\ EnumeratedInNameOrder(d.referees, "referee_id", "referee_name")
           /\ Column(d.referees, "referee_name") = Column(csv, "match_referee")
           /\ r.status = "ok"
           /\ r.value.teams = d.teams
           /\ r.value.referees = d.referees

\* a file whose first row brings the later names
C19_Witness ==
    /\ data.status = "ok"
    /\ Len(data.value.teams) = 3
    /\ Len(data.value.referees) = 2
    /\ Reverse(csv) # csv
    /\ csv[1].home_team = "Everton"
    /\ csv[1].match_referee = "M Oliver"
    /\ data.value.teams[1].team_name = "Arsenal"
    /\ data.value.referees[1].referee_name = "A Taylor"

Least(S) == CHOOSE x \in S : \A y \in S : x <= y
Greatest(S) == CHOOSE x \in S : \A y \in S : x >= y

DatesOfSeason(file, label) ==
    {file[i].match_date : i \in {j \in 1..Len(file) : file[j].season = label}}

\* C20: the transform returns one Season row per distinct season label of
\* the file, with start_date the earliest and end_date the latest match
\* date of that label's fixtures, so every Match row's date lies within the
\* window of the Season row it refers to.
C20_SeasonWindow ==
    data.status = "ok"
    => LET d == data.value
       IN  /\ Len(d.seasons) = Cardinality(SeasonLabels(csv))
           /\ Column(d.seasons, "season") = SeasonLabels(csv)
           /\ \A i \in 1..Len(d.seasons) :
                 LET x == d.seasons[i]
                 IN  /\ x.start_date = Least(DatesOfSeason(csv, x.season))
                     /\ x.end_date = Greatest(DatesOfSeason(csv, x.season))
           /\ \A i \in 1..Len(d.matches) :
                 \A x \in Range(d.seasons) :
                    x.season_id = d.matches[i].season_id
                    => /\ x.season = csv[i].season
                       /\ x.start_date <= d.matches[i].match_date
                       /\ d.matches[i].match_date <= x.end_date

\* a season whose later match day comes first in the file
C20_Witness ==
    /\ data.status = "ok"
    /\ Len(data.value.seasons) = 1
    /\ Len(csv) = 2
    /\ csv[1].match_date > csv[2].match_date
    /\ data.value.seasons[1].start_date = csv[2].match_date
    /\ data.value.seasons[1].end_date = csv[1].match_date


(***************************************************************************)
(* Properties of the store's read operations (checked under SpecRead)      *)
(***************************************************************************)
ReadOps ==
    {"get_all_seasons", "get_all_teams", "load_season_data", "load_all_seasons",
     "load_team_stats", "load_league_table"}

\* the underlying query of the last call failed
QueryFailed == ~result.up \/ ~committed.schema

\* C21: when a season-filtered read (load_season_data, load_team_stats,
\* load_league_table) is asked for a season label the ledger does not hold
\* and the query itself succeeds, the call raises to its caller instead of
\* returning an empty result.
C21_UnknownSeasonRaises ==
    (/\ result.op \in {"load_season_data", "load_team_stats", "load_league_table"}
     /\ result.season # None
     /\ ~QueryFailed
     /\ result.season \notin {r.season : r \in RowsOf(committed, "seasons")})
    => result.out.status = "raise"

\* C22: when the underlying query of a read operation fails, the operation
\* raises to its caller: it returns no normal value.
C22_FailureSurfaces ==
    (result.op \in ReadOps /\ QueryFailed) => result.out.status = "raise"

(***************************************************************************)
(* Properties of the workflow (checked under SpecFlow)                     *)
(***************************************************************************)
FlowOrder ==
    <<"manager_agent", "data_agent", "analytics_agent", "visualizer_agent">>

\* the nodes run so far are the first ones of the fixed order, each once,
\* and the node to run next is the one after them
InFixedOrder ==
    /\ Len(ran) <= Len(FlowOrder)
    /\ ran = SubSeq(FlowOrder, 1, Len(ran))
    /\ stage = IF Len(ran) < Len(FlowOrder) THEN FlowOrder[Len(ran) + 1]
               ELSE "END"

\* C23: every invocation of the workflow runs manager, data, analytics and
\* visualizer in that order, each exactly once, whether or not an earlier
\* stage failed, and then reaches END and stays there.
C23_FixedOrder ==
    /\ []InFixedOrder
    /\ <>[](stage = "END" /\ ran = FlowOrder)

\* the invocation is over, all four nodes ran, and the first one had failed
C23_Witness ==
    /\ stage = "END"
    /\ ran = FlowOrder
    /\ ~Has(state, "parsed_query")
    /\ Len(state.errors) > 0

\* the key each node stores its output under, and the name it signs its
\* errors with
OutputKey == <<"parsed_query", "raw_data", "analytics_results", "visualizations">>
AgentName == <<"Manager Agent", "Data Agent", "Analytics Agent", "Visualizer Agent">>

\* the outputs set are those of the first f stages, and errors holds one
\* entry for every later stage that has run, in stage order
ErrorsFollowFirstFailure(s, n) ==
    LET f == Cardinality({i \in 1..Len(OutputKey) : Has(s, OutputKey[i])})
    IN  /\ f <= n
        /\ \A i \in 1..Len(OutputKey) : Has(s, OutputKey[i]) <=> i <= f
        /\ Len(s.errors) = n - f
        /\ \A j \in 1..(n - f) : s.errors[j].agent = AgentName[f + j]

\* C28: a stage's output is set only if every earlier stage succeeded; if
\* stage k is the first to fail, no output of stage k or later is set and
\* errors holds exactly one entry for each of the stages k..4 that has run,
\* in stage order; if no stage fails errors stays empty; and no step of the
\* workflow removes or changes an entry of errors.
C28_ErrorsAccumulate ==
    /\ [](ErrorsFollowFirstFailure(state, Len(ran)))
    /\ [][/\ Len(state.errors) <= Len(state'.errors)
          /\ state.errors = SubSeq(state'.errors, 1, Len(state.errors))]_vars

\* the data stage was the first to fail and the invocation is over: three
\* entries, one per stage from the data stage on
C28_Witness ==
    /\ stage = "END"
    /\ Has(state, "parsed_query")
    /\ ~Has(state, "raw_data")
    /\ Len(state.errors) = 3

(***************************************************************************)
(* Properties of the fetch stage's ordering (checked under SpecPipe)       *)
(***************************************************************************)
\* each row's date is at least the next row's date
DateDescending(df) ==
    \A i \in 1..(Len(df) - 1) : df[i].Date >= df[i + 1].Date

\* C29: whatever filter path the query takes in the data agent, the match
\* collection handed to the analytics stage is ordered by date descending,
\* so compute_team_form's ordering precondition holds at every pipeline call.
C29_HandedOverNewestFirst ==
    stage \in {"analytics_agent", "visualizer_agent"} => DateDescending(matches_df)

\* the analytics agent computed a team's form on two fixtures of different
\* days that the season file lists oldest first
C29_Witness ==
    /\ stage = "visualizer_agent"
    /\ result.out.status = "ok"
    /\ "form_analysis" \in DOMAIN result.out.value
    /\ Len(matches_df) = 2
    /\ matches_df[1].Date > matches_df[2].Date
    /\ season_df[1].Date < season_df[2].Date

(***************************************************************************)
(* compute_team_stats: venue-relative counting                             *)
(***************************************************************************)
Involves(r, team) == r.HomeTeam = team \/ r.AwayTeam = team

IsWin(r, team) ==
    (r.HomeTeam = team /\ r.FTR = "H") \/ (r.AwayTeam = team /\ r.FTR = "A")

IsLoss(r, team) ==
    (r.HomeTeam = team /\ r.FTR = "A") \/ (r.AwayTeam = team /\ r.FTR = "H")

IsDraw(r, team) == Involves(r, team) /\ r.FTR = "D"

HowMany(df, P(_)) == Cardinality({i \in 1..Len(df) : P(df[i])})

GoalsFor(r, team) ==
    IF r.HomeTeam = team THEN r.FTHG ELSE IF r.AwayTeam = team THEN r.FTAG ELSE 0

GoalsAgainst(r, team) ==
    IF r.HomeTeam = team THEN r.FTAG ELSE IF r.AwayTeam = team THEN r.FTHG ELSE 0

VenueRelative(df, team, stats) ==
    /\ stats.wins   = HowMany(df, LAMBDA r : IsWin(r, team))
    /\ stats.losses = HowMany(df, LAMBDA r : IsLoss(r, team))
    /\ stats.draws  = HowMany(df, LAMBDA r : IsDraw(r, team))
    /\ stats.goals_scored   = SumSeq([i \in 1..Len(df) |-> GoalsFor(df[i], team)])
    /\ stats.goals_conceded = SumSeq([i \in 1..Len(df) |-> GoalsAgainst(df[i], team)])
    /\ stats.points = 3 * stats.wins + stats.draws

BrentfordBeatArsenal == matches_df \in ScenarioCollections

ScenarioValues(team, stats) ==
    /\ team = "Brentford" =>
          /\ stats.wins = 1 /\ stats.points = 3
          /\ stats.goals_scored = 2 /\ stats.goals_conceded = 0
    /\ team = "Arsenal" =>
          /\ stats.losses = 1 /\ stats.points = 0
          /\ stats.goals_scored = 0 /\ stats.goals_conceded = 2

\* C24: compute_team_stats counts a match as a win for the team iff the team
\* is at home and the result is H or away and the result is A, losses the
\* other way round, D a draw at either venue; goals_scored sums the team's own
\* column per venue and goals_conceded the opposite column; points is
\* 3 x wins + draws. For the single fixture Brentford 2-0 Arsenal: Brentford
\* wins 1, points 3, scored 2, conceded 0; Arsenal losses 1, points 0,
\* scored 0, conceded 2.
C24_VenueRelativeCounts ==
    result.op = "compute_team_stats" =>
        /\ result.out.status = "ok"
        /\ VenueRelative(matches_df, result.team, result.out.value)
        /\ BrentfordBeatArsenal => ScenarioValues(result.team, result.out.value)

C24_Witness ==
    /\ BrentfordBeatArsenal
    /\ result.op = "compute_team_stats"
    /\ result.team = "Arsenal"
    /\ result.out.value.losses = 1
    /\ result.out.value.goals_conceded = 2

(***************************************************************************)
(* compute_team_stats: a team without matches                              *)
(***************************************************************************)
HasNoMatches(df, team) == \A i \in 1..Len(df) : ~Involves(df[i], team)

ZeroFields ==
    {"matches_played", "wins", "draws", "losses", "goals_scored",
     "goals_conceded", "points", "clean_sheets", "win_rate", "points_per_game",
     "goals_per_game"}

\* C25: for a team with no matches in the collection compute_team_stats
\* returns normally, with matches_played, wins, draws, losses, the goals,
\* points and clean_sheets all 0 and win_rate, points_per_game and
\* goals_per_game 0; nothing is divided by zero and nothing else fails.
C25_NoMatchesAllZero ==
    (result.op = "compute_team_stats" /\ HasNoMatches(matches_df, result.team)) =>
        /\ result.out.status = "ok"
        /\ \A f \in ZeroFields : result.out.value[f] = 0

C25_Witness ==
    /\ result.op = "compute_team_stats"
    /\ Len(matches_df) > 0
    /\ HasNoMatches(matches_df, result.team)
    /\ result.out.status = "ok"
    /\ result.out.value.points_per_game = 0

(***************************************************************************)
(* compute_team_form                                                       *)
(***************************************************************************)
\* the positions in df of the rows involving the team, in input order
RowsInvolving(df, team) ==
    SelectSeq([i \in 1..Len(df) |-> i], LAMBDA i : Involves(df[i], team))

Min(a, b) == IF a < b THEN a ELSE b

VenueLetter(r, team) ==
    IF IsWin(r, team) THEN "W" ELSE IF IsDraw(r, team) THEN "D" ELSE "L"

FormOfFirstRows(df, team, last_n, form) ==
    LET at == RowsInvolving(df, team)
        n  == Min(last_n, Len(at))
    IN  /\ Len(form.form_string) = n
        /\ Len(form.recent_results) = n
        /\ \A i \in 1..n :
              /\ form.form_string[i] = VenueLetter(df[at[i]], team)
              /\ form.recent_results[i].result = form.form_string[i]
              /\ form.recent_results[i].date = df[at[i]].Date
              /\ form.recent_results[i].opponent \in
                     {df[at[i]].HomeTeam, df[at[i]].AwayTeam} \ {team}
        /\ form.form_points =
              3 * Cardinality({i \in 1..n : form.form_string[i] = "W"})
              + Cardinality({i \in 1..n : form.form_string[i] = "D"})
        /\ Len(at) = 0 =>
              form = [form_string |-> <<>>, form_points |-> 0,
                      recent_results |-> <<>>]

\* C26: compute_team_form(matches, team, last_n) considers exactly the first
\* min(last_n, k) of the k input rows involving the team, in input order:
\* form_string has one venue-relative letter (W/D/L) per considered match in
\* that order, recent_results has the same length and order, form_points is
\* 3 x (number of W) + (number of D), and with no matching row the record is
\* the empty form (empty string, 0 points, no results).
C26_FormOfFirstRows ==
    result.op = "compute_team_form" =>
        /\ result.out.status = "ok"
        /\ FormOfFirstRows(matches_df, result.team, result.last_n,
                           result.out.value)

\* two matches of the team with different outcomes, only the first asked for
C26_Witness ==
    /\ result.op = "compute_team_form"
    /\ result.last_n = 1
    /\ Len(RowsInvolving(matches_df, result.team)) = 2
    /\ VenueLetter(matches_df[1], result.team) = "L"
    /\ VenueLetter(matches_df[2], result.team) = "W"
    /\ result.out.value.form_string = <<"L">>
    /\ result.out.value.form_points = 0

(***************************************************************************)
(* compute_league_table: rows and positions                                *)
(***************************************************************************)
TeamsAppearing(df) ==
    {df[i].HomeTeam : i \in 1..Len(df)} \cup {df[i].AwayTeam : i \in 1..Len(df)}

WithoutColumn(row, name) == [c \in DOMAIN row \ {name} |-> row[c]]

TiedOnAllKeys(a, b) ==
    /\ a.points = b.points
    /\ a.goal_difference = b.goal_difference
    /\ a.goals_scored = b.goals_scored

\* C27: the table compute_league_table returns has exactly one row per
\* distinct team appearing as home or away team in the collection, each row
\* equal to compute_team_stats for that team over the whole collection, and
\* the i-th row (1-based) has position i, so the positions are exactly 1..N
\* without gap or repeat, also for teams tied on all three sort keys.
C27_OneRowPerTeamPositioned ==
    (result.op = "compute_league_table" /\ Returned) =>
        LET t == result.out.value
        IN  /\ Len(t) = Cardinality(TeamsAppearing(matches_df))
            /\ {t[i].team : i \in 1..Len(t)} = TeamsAppearing(matches_df)
            /\ \A i \in 1..Len(t) :
                  /\ WithoutColumn(t[i], "position")
                        = compute_team_stats(matches_df, t[i].team)
                  /\ t[i].position = i
            /\ {t[i].position : i \in 1..Len(t)} = 1..Len(t)

\* three teams of which two are tied on points, goal difference and goals
C27_Witness ==
    /\ result.op = "compute_league_table"
    /\ Returned
    /\ Len(result.out.value) = 3
    /\ \E i \in 1..2 :
          /\ TiedOnAllKeys(result.out.value[i], result.out.value[i + 1])
          /\ result.out.value[i].position = i
          /\ result.out.value[i + 1].position = i + 1

(***************************************************************************)
(* compute_head_to_head: conservation and symmetry                         *)
(***************************************************************************)
\* every row is a fixture between the two teams
OnlyBetween(df, team_a, team_b) ==
    \A i \in 1..Len(df) : {df[i].HomeTeam, df[i].AwayTeam} = {team_a, team_b}

CountsAddUp(df, h2h) ==
    /\ h2h.team_a_wins + h2h.team_b_wins + h2h.draws = h2h.total_matches
    /\ h2h.total_matches = Len(df)

GoalsAddUp(df, h2h) ==
    /\ {"team_a_goals", "team_b_goals"} \subseteq DOMAIN h2h
    /\ h2h.team_a_goals + h2h.team_b_goals
          = SumSeq([i \in 1..Len(df) |-> df[i].FTHG + df[i].FTAG])

Swapped(h2h, swapped) ==
    /\ {"team_a_goals", "team_b_goals"} \subseteq DOMAIN h2h \cap DOMAIN swapped
    /\ swapped.team_a_wins  = h2h.team_b_wins
    /\ swapped.team_b_wins  = h2h.team_a_wins
    /\ swapped.team_a_goals = h2h.team_b_goals
    /\ swapped.team_b_goals = h2h.team_a_goals
    /\ swapped.draws        = h2h.draws

\* C30: for every input to compute_head_to_head, also one holding fixtures of
\* other teams, team_a_wins + team_b_wins + draws = total_matches = the
\* number of input rows; and when every row is a fixture between the two
\* teams, team_a_goals + team_b_goals is the total of the goals scored in
\* those fixtures, and calling with the teams swapped swaps the win counts
\* and the goal totals and leaves draws unchanged.
C30_H2HConserved ==
    result.op = "compute_head_to_head" =>
        /\ result.out.status = "ok"
        /\ CountsAddUp(matches_df, result.out.value)
        /\ OnlyBetween(matches_df, result.team_a, result.team_b) =>
              /\ GoalsAddUp(matches_df, result.out.value)
              /\ Swapped(result.out.value,
                         compute_head_to_head(matches_df, result.team_b,
                                              result.team_a))

\* the same with the goal totals asked of non-empty collections only
C30_H2HConservedWhenPlayed ==
    result.op = "compute_head_to_head" =>
        /\ result.out.status = "ok"
        /\ CountsAddUp(matches_df, result.out.value)
        /\ (Len(matches_df) > 0
             /\ OnlyBetween(matches_df, result.team_a, result.team_b)) =>
              /\ GoalsAddUp(matches_df, result.out.value)
              /\ Swapped(result.out.value,
                         compute_head_to_head(matches_df, result.team_b,
                                              result.team_a))

\* a record of two fixtures between the teams with unequal win counts
C30_PlayedWitness ==
    /\ result.op = "compute_head_to_head"
    /\ Len(matches_df) = 2
    /\ OnlyBetween(matches_df, result.team_a, result.team_b)
    /\ result.out.value.team_a_wins = 2
    /\ result.out.value.team_a_goals > result.out.value.team_b_goals

\* a record over fixtures that are not all between the two teams
C30_UnfilteredWitness ==
    /\ result.op = "compute_head_to_head"
    /\ Len(matches_df) = 2
    /\ ~OnlyBetween(matches_df, result.team_a, result.team_b)
    /\ CountsAddUp(matches_df, result.out.value)

====
